---- MODULE Spec2Model ----
(***************************************************************************)
(* A model of myyaml (src/myyaml.c): the scanner, the parser, the loader   *)
(* and the emitter, each C function translated into one operator over the  *)
(* parser (or emitter) structure, and the public entry points as actions.  *)
(*                                                                         *)
(* Conventions.  A C string is a sequence of one-character strings; the   *)
(* NULL pointer is the sequence NULL (the string "NULL" where the pointer *)
(* is to a message).  The input is ASCII, for which the                    *)
(* reader (yaml_parser_update_buffer) hands the bytes on unchanged and     *)
(* CACHE always succeeds; a read past the end of the input yields the NUL  *)
(* the reader appends at the end of the stream.  Memory allocation does    *)
(* not fail.  A function that returns 0 leaves parser->error set, so the   *)
(* callers test the error field where the C code tests the return value.   *)
(* The grave accent, which a TLA+ string cannot hold, is written BACKTICK. *)
(***************************************************************************)
EXTENDS Integers, Sequences, FiniteSets, TLC

VARIABLES
    MAX_NESTING_LEVEL,  \* the global nesting limit
    parser,             \* the YamlParser structure
    api,                \* the entry point the application calls
    pc,                 \* where the application is: "idle" between calls
    call,               \* the last call: its result and what it delivered
    events,             \* the events delivered so far
    loader,             \* the loader's stack of open collections (ctx)
    document,           \* the document of the last yaml_parser_load
    emitter,            \* the YamlEmitter structure, NULL before it is made
    application         \* the application of the emitter: its events, how
                        \* many it has emitted, the releases of each

vars ==
    <<MAX_NESTING_LEVEL, parser, api, pc, call, events, loader, document,
      emitter, application>>

NULL == <<"NULL">>

\* An application that has made no emitter.
NoApplication ==
    [events |-> <<>>, emitted |-> 0, released |-> <<>>, emitter |-> "none"]

NUL == "x00"

MAX_NUMBER_LENGTH == 9

Mark(index, line, column) == [index |-> index, line |-> line, column |-> column]

Mark0 == Mark(0, 0, 0)

(***************************************************************************)
(* Character classes (the IS_..._AT macros), on one character.             *)
(***************************************************************************)
IS_ALPHA(c) ==
    c \in {"0", "1", "2", "3", "4", "5", "6", "7", "8", "9",
           "A", "B", "C", "D", "E", "F", "G", "H", "I", "J", "K", "L", "M",
           "N", "O", "P", "Q", "R", "S", "T", "U", "V", "W", "X", "Y", "Z",
           "a", "b", "c", "d", "e", "f", "g", "h", "i", "j", "k", "l", "m",
           "n", "o", "p", "q", "r", "s", "t", "u", "v", "w", "x", "y", "z",
           "_", "-"}

IS_DIGIT(c) == c \in {"0", "1", "2", "3", "4", "5", "6", "7", "8", "9"}

AS_DIGIT(c) ==
    CASE c = "0" -> 0 [] c = "1" -> 1 [] c = "2" -> 2 [] c = "3" -> 3
      [] c = "4" -> 4 [] c = "5" -> 5 [] c = "6" -> 6 [] c = "7" -> 7
      [] c = "8" -> 8 [] OTHER -> 9

\* A variant of IS_BLANK that knows the tab only.
IS_BLANK_tab(c) == c = "\t"

IS_BLANK(c) == c \in {" ", "\t"}

IS_BREAK(c) == c \in {"\r", "\n"}

IS_BREAKZ(c) == IS_BREAK(c) \/ c = NUL

IS_BLANKZ(c) == IS_BLANK(c) \/ IS_BREAKZ(c)

(***************************************************************************)
(* YamlChar_t: the byte each character name stands for.                    *)
(***************************************************************************)
BYTE ==
    <<"x00", "x01", "x02", "x03", "x04", "x05", "x06", "x07", "x08", "\t",
      "\n", "x0B", "x0C", "\r", "x0E", "x0F", "x10", "x11", "x12", "x13",
      "x14", "x15", "x16", "x17", "x18", "x19", "x1A", "x1B", "x1C", "x1D",
      "x1E", "x1F", " ", "!", "\"", "#", "$", "%", "&", "'", "(", ")", "*",
      "+", ",", "-", ".", "/", "0", "1", "2", "3", "4", "5", "6", "7", "8",
      "9", ":", ";", "<", "=", ">", "?", "@", "A", "B", "C", "D", "E", "F",
      "G", "H", "I", "J", "K", "L", "M", "N", "O", "P", "Q", "R", "S", "T",
      "U", "V", "W", "X", "Y", "Z", "[", "\\", "]", "^", "_", "BACKTICK",
      "a", "b", "c", "d", "e", "f", "g", "h", "i", "j", "k", "l", "m", "n",
      "o", "p", "q", "r", "s", "t", "u", "v", "w", "x", "y", "z", "{", "|",
      "}", "~", "x7F", "x80", "x81", "x82", "x83", "x84", "x85", "x86",
      "x87", "x88", "x89", "x8A", "x8B", "x8C", "x8D", "x8E", "x8F", "x90",
      "x91", "x92", "x93", "x94", "x95", "x96", "x97", "x98", "x99", "x9A",
      "x9B", "x9C", "x9D", "x9E", "x9F", "xA0", "xA1", "xA2", "xA3", "xA4",
      "xA5", "xA6", "xA7", "xA8", "xA9", "xAA", "xAB", "xAC", "xAD", "xAE",
      "xAF", "xB0", "xB1", "xB2", "xB3", "xB4", "xB5", "xB6", "xB7", "xB8",
      "xB9", "xBA", "xBB", "xBC", "xBD", "xBE", "xBF", "xC0", "xC1", "xC2",
      "xC3", "xC4", "xC5", "xC6", "xC7", "xC8", "xC9", "xCA", "xCB", "xCC",
      "xCD", "xCE", "xCF", "xD0", "xD1", "xD2", "xD3", "xD4", "xD5", "xD6",
      "xD7", "xD8", "xD9", "xDA", "xDB", "xDC", "xDD", "xDE", "xDF", "xE0",
      "xE1", "xE2", "xE3", "xE4", "xE5", "xE6", "xE7", "xE8", "xE9", "xEA",
      "xEB", "xEC", "xED", "xEE", "xEF", "xF0", "xF1", "xF2", "xF3", "xF4",
      "xF5", "xF6", "xF7", "xF8", "xF9", "xFA", "xFB", "xFC", "xFD", "xFE",
      "xFF">>

ORD == [c \in {BYTE[i] : i \in 1..256} |->
           (CHOOSE i \in 1..256 : BYTE[i] = c) - 1]

(***************************************************************************)
(* The reader's buffer: parser->buffer.pointer[k].                         *)
(***************************************************************************)
At(p, k) ==
    IF p.pointer + k + 1 <= Len(p.input)
    THEN p.input[p.pointer + k + 1] ELSE NUL

\* The number of octets of the character that begins with the octet c.
WIDTH(c) ==
    IF ORD[c] < 128 THEN 1
    ELSE IF ORD[c] \div 32 = 6 THEN 2
    ELSE IF ORD[c] \div 16 = 14 THEN 3
    ELSE IF ORD[c] \div 8 = 30 THEN 4
    ELSE 0

\* The octets of the character at the pointer.
COPY(p) == [k \in 1..WIDTH(At(p, 0)) |-> At(p, k - 1)]

\* A variant of SKIP that advances the index by the octets of the character.
SKIP_octets(p) ==
    [p EXCEPT !.mark = Mark(@.index + WIDTH(At(p, 0)), @.line, @.column + 1),
              !.pointer = @ + WIDTH(At(p, 0))]

SKIP(p) ==
    [p EXCEPT !.mark = Mark(@.index + 1, @.line, @.column + 1),
              !.pointer = @ + WIDTH(At(p, 0))]

SKIP_LINE(p) ==
    IF At(p, 0) = "\r" /\ At(p, 1) = "\n"
    THEN [p EXCEPT !.mark = Mark(@.index + 2, @.line + 1, 0),
                   !.pointer = @ + 2]
    ELSE IF IS_BREAK(At(p, 0))
         THEN [p EXCEPT !.mark = Mark(@.index + 1, @.line + 1, 0),
                        !.pointer = @ + WIDTH(At(p, 0))]
         ELSE p

(***************************************************************************)
(* Tokens.                                                                 *)
(***************************************************************************)
TOKEN_INIT(type, start_mark, end_mark) ==
    [type |-> type, start_mark |-> start_mark, end_mark |-> end_mark,
     value |-> <<>>, handle |-> <<>>, style |-> "ANY", major |-> 0,
     minor |-> 0]

SCALAR_TOKEN_INIT(value, style, start_mark, end_mark) ==
    [type |-> "SCALAR", start_mark |-> start_mark, end_mark |-> end_mark,
     value |-> value, handle |-> <<>>, style |-> style, major |-> 0,
     minor |-> 0]

NO_TOKEN == TOKEN_INIT("NO", Mark0, Mark0)

ENQUEUE(p, token) == [p EXCEPT !.tokens = Append(@, token)]

QUEUE_INSERT(p, index, token) ==
    [p EXCEPT !.tokens =
        SubSeq(@, 1, index) \o <<token>> \o SubSeq(@, index + 1, Len(@))]

yaml_parser_set_scanner_error(p, context, context_mark, problem) ==
    [p EXCEPT !.error = "SCANNER", !.context = context,
              !.context_mark = context_mark, !.problem = problem,
              !.problem_mark = p.mark]

Failed(p) == p.error # "NO"

(***************************************************************************)
(* Simple keys, flow levels and indentation.                               *)
(***************************************************************************)
EmptySimpleKey ==
    [possible |-> FALSE, required |-> FALSE, token_number |-> 0, mark |-> Mark0]

\* A variant of yaml_parser_stale_simple_keys that lets a simple key be of
\* any length on its line.
yaml_parser_stale_simple_keys_line(p) ==
    LET stale(k) == k.possible /\ k.mark.line < p.mark.line
        bad == {i \in 1..Len(p.simple_keys) :
                   stale(p.simple_keys[i]) /\ p.simple_keys[i].required}
    IN IF bad # {}
       THEN yaml_parser_set_scanner_error(p, "while scanning a simple key",
                p.simple_keys[CHOOSE i \in bad : \A j \in bad : i <= j].mark,
                "could not find expected ':'")
       ELSE [p EXCEPT !.simple_keys =
                [i \in 1..Len(@) |->
                    IF stale(@[i]) THEN [@[i] EXCEPT !.possible = FALSE]
                    ELSE @[i]]]

yaml_parser_stale_simple_keys(p) ==
    LET stale(k) == k.possible /\ (k.mark.line < p.mark.line
                                   \/ k.mark.index + 1024 < p.mark.index)
        bad == {i \in 1..Len(p.simple_keys) :
                   stale(p.simple_keys[i]) /\ p.simple_keys[i].required}
        first == CHOOSE i \in bad : \A j \in bad : i <= j
    IN IF bad # {}
       THEN yaml_parser_set_scanner_error(
                [p EXCEPT !.simple_keys =
                    [i \in 1..Len(@) |->
                        IF i < first /\ stale(@[i])
                        THEN [@[i] EXCEPT !.possible = FALSE] ELSE @[i]]],
                "while scanning a simple key", p.simple_keys[first].mark,
                "could not find expected ':'")
       ELSE [p EXCEPT !.simple_keys =
                [i \in 1..Len(@) |->
                    IF stale(@[i]) THEN [@[i] EXCEPT !.possible = FALSE]
                    ELSE @[i]]]

\* A variant of yaml_parser_remove_simple_key that removes a required key
\* like any other.
yaml_parser_remove_simple_key_silent(p) ==
    [p EXCEPT !.simple_keys[Len(p.simple_keys)].possible = FALSE]

yaml_parser_remove_simple_key(p) ==
    LET top == Len(p.simple_keys)
        simple_key == p.simple_keys[top]
    IN IF simple_key.possible /\ simple_key.required
       THEN yaml_parser_set_scanner_error(p, "while scanning a simple key",
                simple_key.mark, "could not find expected ':'")
       ELSE [p EXCEPT !.simple_keys[top].possible = FALSE]

yaml_parser_save_simple_key(p) ==
    LET required == p.flow_level = 0 /\ p.indent = p.mark.column
        simple_key == [possible |-> TRUE, required |-> required,
                       token_number |-> p.tokens_parsed + Len(p.tokens),
                       mark |-> p.mark]
        p1 == yaml_parser_remove_simple_key(p)
    IN IF ~p.simple_key_allowed THEN p
       ELSE IF Failed(p1) THEN p1
       ELSE [p1 EXCEPT !.simple_keys[Len(p1.simple_keys)] = simple_key]

yaml_parser_increase_flow_level(p) ==
    [p EXCEPT !.simple_keys = Append(@, EmptySimpleKey),
              !.flow_level = @ + 1]

\* A variant of yaml_parser_decrease_flow_level without the test of the level.
yaml_parser_decrease_flow_level_unchecked(p) ==
    [p EXCEPT !.flow_level = @ - 1,
              !.simple_keys = SubSeq(@, 1, Len(@) - 1)]

yaml_parser_decrease_flow_level(p) ==
    IF p.flow_level # 0
    THEN [p EXCEPT !.flow_level = @ - 1,
                   !.simple_keys = SubSeq(@, 1, Len(@) - 1)]
    ELSE p

yaml_parser_roll_indent_equal(p, column, number, type, mark) ==
    IF p.flow_level # 0 THEN p
    ELSE IF p.indent <= column
    THEN LET p1 == [p EXCEPT !.indents = Append(@, p.indent),
                             !.indent = column]
             token == TOKEN_INIT(type, mark, mark)
         IN IF number = -1 THEN ENQUEUE(p1, token)
            ELSE QUEUE_INSERT(p1, number - p1.tokens_parsed, token)
    ELSE p

yaml_parser_roll_indent(p, column, number, type, mark) ==
    IF p.flow_level # 0 THEN p
    ELSE IF p.indent < column
    THEN LET p1 == [p EXCEPT !.indents = Append(@, p.indent),
                             !.indent = column]
             token == TOKEN_INIT(type, mark, mark)
         IN IF number = -1 THEN ENQUEUE(p1, token)
            ELSE QUEUE_INSERT(p1, number - p1.tokens_parsed, token)
    ELSE p

\* A variant of yaml_parser_unroll_indent that closes one block at most.
yaml_parser_unroll_indent_once(p, column) ==
    IF p.flow_level # 0 \/ p.indent <= column THEN p
    ELSE [ENQUEUE(p, TOKEN_INIT("BLOCK_END", p.mark, p.mark))
             EXCEPT !.indent = p.indents[Len(p.indents)],
                    !.indents = SubSeq(@, 1, Len(@) - 1)]

RECURSIVE yaml_parser_unroll_indent(_, _)
yaml_parser_unroll_indent(p, column) ==
    IF p.flow_level # 0 THEN p
    ELSE IF p.indent > column
    THEN yaml_parser_unroll_indent(
             [ENQUEUE(p, TOKEN_INIT("BLOCK_END", p.mark, p.mark))
                 EXCEPT !.indent = p.indents[Len(p.indents)],
                        !.indents = SubSeq(@, 1, Len(@) - 1)],
             column)
    ELSE p

(***************************************************************************)
(* Token fetchers.                                                         *)
(***************************************************************************)
yaml_parser_fetch_stream_start(p) ==
    ENQUEUE([p EXCEPT !.indent = -1,
                      !.simple_keys = Append(@, EmptySimpleKey),
                      !.simple_key_allowed = TRUE,
                      !.stream_start_produced = TRUE],
            TOKEN_INIT("STREAM_START", p.mark, p.mark))

yaml_parser_fetch_stream_end(p) ==
    LET p1 == IF p.mark.column # 0
              THEN [p EXCEPT !.mark = Mark(@.index, @.line + 1, 0)] ELSE p
        p2 == yaml_parser_unroll_indent(p1, -1)
        p3 == yaml_parser_remove_simple_key(p2)
    IN IF Failed(p3) THEN p3
       ELSE ENQUEUE([p3 EXCEPT !.simple_key_allowed = FALSE],
                    TOKEN_INIT("STREAM_END", p3.mark, p3.mark))

yaml_parser_fetch_document_indicator(p, type) ==
    LET p1 == yaml_parser_unroll_indent(p, -1)
        p2 == yaml_parser_remove_simple_key(p1)
        p3 == SKIP(SKIP(SKIP([p2 EXCEPT !.simple_key_allowed = FALSE])))
    IN IF Failed(p2) THEN p2
       ELSE ENQUEUE(p3, TOKEN_INIT(type, p2.mark, p3.mark))

yaml_parser_fetch_flow_collection_start(p, type) ==
    LET p1 == yaml_parser_save_simple_key(p)
        p2 == [yaml_parser_increase_flow_level(p1)
                  EXCEPT !.simple_key_allowed = TRUE]
        p3 == SKIP(p2)
    IN IF Failed(p1) THEN p1
       ELSE ENQUEUE(p3, TOKEN_INIT(type, p2.mark, p3.mark))

yaml_parser_fetch_flow_collection_end(p, type) ==
    LET p1 == yaml_parser_remove_simple_key(p)
        p2 == [yaml_parser_decrease_flow_level(p1)
                  EXCEPT !.simple_key_allowed = FALSE]
        p3 == SKIP(p2)
    IN IF Failed(p1) THEN p1
       ELSE ENQUEUE(p3, TOKEN_INIT(type, p2.mark, p3.mark))

yaml_parser_fetch_flow_entry(p) ==
    LET p1 == yaml_parser_remove_simple_key(p)
        p2 == [p1 EXCEPT !.simple_key_allowed = TRUE]
        p3 == SKIP(p2)
    IN IF Failed(p1) THEN p1
       ELSE ENQUEUE(p3, TOKEN_INIT("FLOW_ENTRY", p2.mark, p3.mark))

yaml_parser_fetch_block_entry(p) ==
    LET p1 == IF p.flow_level = 0
              THEN yaml_parser_roll_indent(p, p.mark.column, -1,
                                           "BLOCK_SEQUENCE_START", p.mark)
              ELSE p
        p2 == yaml_parser_remove_simple_key(p1)
        p3 == [p2 EXCEPT !.simple_key_allowed = TRUE]
        p4 == SKIP(p3)
    IN IF p.flow_level = 0 /\ ~p.simple_key_allowed
       THEN yaml_parser_set_scanner_error(p, "NULL", p.mark,
                "block sequence entries are not allowed in this context")
       ELSE IF Failed(p2) THEN p2
       ELSE ENQUEUE(p4, TOKEN_INIT("BLOCK_ENTRY", p3.mark, p4.mark))

yaml_parser_fetch_key(p) ==
    LET p1 == IF p.flow_level = 0
              THEN yaml_parser_roll_indent(p, p.mark.column, -1,
                                           "BLOCK_MAPPING_START", p.mark)
              ELSE p
        p2 == yaml_parser_remove_simple_key(p1)
        p3 == [p2 EXCEPT !.simple_key_allowed = (p2.flow_level = 0)]
        p4 == SKIP(p3)
    IN IF p.flow_level = 0 /\ ~p.simple_key_allowed
       THEN yaml_parser_set_scanner_error(p, "NULL", p.mark,
                "mapping keys are not allowed in this context")
       ELSE IF Failed(p2) THEN p2
       ELSE ENQUEUE(p4, TOKEN_INIT("KEY", p3.mark, p4.mark))

\* A variant of yaml_parser_fetch_value that inserts the KEY token after the
\* first token of the key.
yaml_parser_fetch_value_after(p) ==
    LET top == Len(p.simple_keys)
        simple_key == p.simple_keys[top]
        k1 == QUEUE_INSERT(p, simple_key.token_number - p.tokens_parsed + 1,
                  TOKEN_INIT("KEY", simple_key.mark, simple_key.mark))
        k2 == yaml_parser_roll_indent(k1, simple_key.mark.column,
                  simple_key.token_number, "BLOCK_MAPPING_START",
                  simple_key.mark)
        k3 == [k2 EXCEPT !.simple_keys[top].possible = FALSE,
                         !.simple_key_allowed = FALSE]
        c1 == IF p.flow_level = 0
              THEN yaml_parser_roll_indent(p, p.mark.column, -1,
                                           "BLOCK_MAPPING_START", p.mark)
              ELSE p
        c2 == [c1 EXCEPT !.simple_key_allowed = (c1.flow_level = 0)]
        p3 == IF simple_key.possible THEN k3 ELSE c2
        p4 == SKIP(p3)
    IN IF ~simple_key.possible /\ p.flow_level = 0 /\ ~p.simple_key_allowed
       THEN yaml_parser_set_scanner_error(p, "NULL", p.mark,
                "mapping values are not allowed in this context")
       ELSE ENQUEUE(p4, TOKEN_INIT("VALUE", p3.mark, p4.mark))

yaml_parser_fetch_value(p) ==
    LET top == Len(p.simple_keys)
        simple_key == p.simple_keys[top]
        \* a simple key was found: KEY (and BLOCK-MAPPING-START) are retrofitted
        k1 == QUEUE_INSERT(p, simple_key.token_number - p.tokens_parsed,
                  TOKEN_INIT("KEY", simple_key.mark, simple_key.mark))
        k2 == yaml_parser_roll_indent(k1, simple_key.mark.column,
                  simple_key.token_number, "BLOCK_MAPPING_START",
                  simple_key.mark)
        k3 == [k2 EXCEPT !.simple_keys[top].possible = FALSE,
                         !.simple_key_allowed = FALSE]
        \* the ':' follows a complex key
        c1 == IF p.flow_level = 0
              THEN yaml_parser_roll_indent(p, p.mark.column, -1,
                                           "BLOCK_MAPPING_START", p.mark)
              ELSE p
        c2 == [c1 EXCEPT !.simple_key_allowed = (c1.flow_level = 0)]
        p3 == IF simple_key.possible THEN k3 ELSE c2
        p4 == SKIP(p3)
    IN IF ~simple_key.possible /\ p.flow_level = 0 /\ ~p.simple_key_allowed
       THEN yaml_parser_set_scanner_error(p, "NULL", p.mark,
                "mapping values are not allowed in this context")
       ELSE ENQUEUE(p4, TOKEN_INIT("VALUE", p3.mark, p4.mark))

(***************************************************************************)
(* Eat whitespaces and comments until the next token is found.             *)
(***************************************************************************)
RECURSIVE yaml_parser_scan_to_next_token(_)
yaml_parser_scan_to_next_token(p) ==
    LET \* the loop that eats the whitespaces, in closed form: the blanks are
        \* skipped up to the first character that is none
        blank(q, k) ==
            \/ At(q, k) = " "
            \/ ((q.flow_level # 0 \/ ~q.simple_key_allowed) /\ At(q, k) = "\t")
        rest(q) == IF Len(q.input) > q.pointer THEN Len(q.input) - q.pointer
                   ELSE 0
        others(q) == {k \in 0..rest(q) : ~blank(q, k)}
        skipped(q, n) ==
            [q EXCEPT !.mark = Mark(@.index + n, @.line, @.column + n),
                      !.pointer = @ + n]
        blanks(q) ==
            skipped(q, CHOOSE k \in others(q) : \A j \in others(q) : k <= j)
        RECURSIVE comment(_)
        comment(q) == IF ~IS_BREAKZ(At(q, 0)) THEN comment(SKIP(q)) ELSE q
        p1 == blanks(p)
        p2 == IF At(p1, 0) = "#" THEN comment(p1) ELSE p1
        p3 == SKIP_LINE(p2)
    IN IF IS_BREAK(At(p2, 0))
       THEN yaml_parser_scan_to_next_token(
                IF p3.flow_level = 0
                THEN [p3 EXCEPT !.simple_key_allowed = TRUE] ELSE p3)
       ELSE p2

(***************************************************************************)
(* Token scanners.  Each returns the parser and the token scanned.         *)
(***************************************************************************)
Scanned(p, token) == [p |-> p, token |-> token]

yaml_parser_scan_anchor(p, type) ==
    LET start_mark == p.mark
        RECURSIVE value(_, _)
        value(q, string) ==
            IF IS_ALPHA(At(q, 0))
            THEN value(SKIP(q), Append(string, At(q, 0)))
            ELSE [p |-> q, string |-> string]
        v == value(SKIP(p), <<>>)
    IN IF Len(v.string) = 0
          \/ ~(IS_BLANKZ(At(v.p, 0))
               \/ At(v.p, 0) \in {"?", ":", ",", "]", "}", "%", "@", "BACKTICK"})
       THEN Scanned(yaml_parser_set_scanner_error(v.p,
                        IF type = "ANCHOR" THEN "while scanning an anchor"
                        ELSE "while scanning an alias",
                        start_mark,
                        "did not find expected alphabetic or numeric character"),
                    NO_TOKEN)
       ELSE Scanned(v.p, [TOKEN_INIT(type, start_mark, v.p.mark)
                             EXCEPT !.value = v.string])

IS_HEX(c) ==
    IS_DIGIT(c) \/ c \in {"A", "B", "C", "D", "E", "F"}
                \/ c \in {"a", "b", "c", "d", "e", "f"}

AS_HEX(c) ==
    ORD[c] - (IF c \in {"A", "B", "C", "D", "E", "F"} THEN 65 - 10
              ELSE IF c \in {"a", "b", "c", "d", "e", "f"} THEN 97 - 10
              ELSE 48)

\* The UTF-8 encoding of a code point, as the scanner writes it.
Utf8(value) ==
    IF value <= 127 THEN <<BYTE[value + 1]>>
    ELSE IF value <= 2047
    THEN <<BYTE[192 + (value \div 64) + 1], BYTE[128 + (value % 64) + 1]>>
    ELSE IF value <= 65535
    THEN <<BYTE[224 + (value \div 4096) + 1],
           BYTE[128 + ((value \div 64) % 64) + 1],
           BYTE[128 + (value % 64) + 1]>>
    ELSE <<BYTE[240 + (value \div 262144) + 1],
           BYTE[128 + ((value \div 4096) % 64) + 1],
           BYTE[128 + ((value \div 64) % 64) + 1],
           BYTE[128 + (value % 64) + 1]>>

\* The document indicator test the scanners share: '---' or '...' at column
\* 0, followed by a blank, a break or the end of the input.
AtDocumentIndicator(p) ==
    /\ p.mark.column = 0
    /\ \/ At(p, 0) = "-" /\ At(p, 1) = "-" /\ At(p, 2) = "-"
       \/ At(p, 0) = "." /\ At(p, 1) = "." /\ At(p, 2) = "."
    /\ IS_BLANKZ(At(p, 3))

\* The folding of line breaks the flow and plain scalars share: the string
\* with the breaks seen since the last non-blank character joined to it.
FoldBreaks(string, leading_break, trailing_breaks) ==
    IF leading_break # <<>> /\ leading_break[1] = "\n"
    THEN IF trailing_breaks = <<>> THEN Append(string, " ")
         ELSE string \o trailing_breaks
    ELSE string \o leading_break \o trailing_breaks

ScanState(p) ==
    [p |-> p, string |-> <<>>, leading_break |-> <<>>,
     trailing_breaks |-> <<>>, whitespaces |-> <<>>,
     leading_blanks |-> FALSE, end_mark |-> p.mark]

\* The loop over blanks and breaks of the flow and plain scalars
\* (indent = -1 in a flow scalar, where no tab is refused).
RECURSIVE ScanBlanks(_, _, _)
ScanBlanks(s, indent, start_mark) ==
    LET q == s.p
        c == At(q, 0)
    IN IF IS_BLANK(c)
       THEN IF s.leading_blanks /\ q.mark.column < indent /\ c = "\t"
            THEN [s EXCEPT !.p = yaml_parser_set_scanner_error(q,
                     "while scanning a plain scalar", start_mark,
                     "found a tab character that violates indentation")]
            ELSE IF ~s.leading_blanks
            THEN ScanBlanks([s EXCEPT !.whitespaces = Append(@, c),
                                      !.p = SKIP(q)], indent, start_mark)
            ELSE ScanBlanks([s EXCEPT !.p = SKIP(q)], indent, start_mark)
       ELSE IF IS_BREAK(c)
       THEN IF ~s.leading_blanks
            THEN ScanBlanks([s EXCEPT !.whitespaces = <<>>,
                                      !.leading_break = Append(@, "\n"),
                                      !.leading_blanks = TRUE,
                                      !.p = SKIP_LINE(q)], indent, start_mark)
            ELSE ScanBlanks([s EXCEPT !.trailing_breaks = Append(@, "\n"),
                                      !.p = SKIP_LINE(q)], indent, start_mark)
       ELSE s

yaml_parser_scan_plain_scalar(p) ==
    LET start_mark == p.mark
        indent == p.indent + 1
        RECURSIVE nonblank(_)
        nonblank(s) ==
            LET q == s.p
                c == At(q, 0)
            IN IF IS_BLANKZ(c) THEN s
               ELSE IF q.flow_level # 0 /\ c = ":"
                       /\ At(q, 1) \in {",", "?", "[", "]", "{", "}"}
               THEN [s EXCEPT !.p = yaml_parser_set_scanner_error(q,
                        "while scanning a plain scalar", start_mark,
                        "found unexpected ':'")]
               ELSE IF (c = ":" /\ IS_BLANKZ(At(q, 1)))
                       \/ (q.flow_level # 0 /\ c \in {",", "[", "]", "{", "}"})
               THEN s
               ELSE LET joined ==
                            IF s.leading_blanks
                            THEN [s EXCEPT !.string = FoldBreaks(
                                     @, s.leading_break, s.trailing_breaks),
                                     !.leading_break = <<>>,
                                     !.trailing_breaks = <<>>,
                                     !.leading_blanks = FALSE]
                            ELSE [s EXCEPT !.string = @ \o s.whitespaces,
                                           !.whitespaces = <<>>]
                        advance(q1) == [joined EXCEPT !.string = @ \o COPY(q),
                                                      !.p = q1,
                                                      !.end_mark = q1.mark]
                    IN nonblank(advance(SKIP(q)))
        RECURSIVE scan(_)
        \* after the blanks and breaks that follow the non-blank characters
        blanks(s2) ==
            IF Failed(s2.p) THEN s2
            ELSE IF s2.p.flow_level = 0 /\ s2.p.mark.column < indent THEN s2
            ELSE scan(s2)
        \* after the non-blank characters
        nonblanks(s1) ==
            IF Failed(s1.p) THEN s1
            ELSE IF ~(IS_BLANK(At(s1.p, 0)) \/ IS_BREAK(At(s1.p, 0))) THEN s1
            ELSE blanks(ScanBlanks(s1, indent, start_mark))
        scan(s) ==
            IF AtDocumentIndicator(s.p) \/ At(s.p, 0) = "#" THEN s
            ELSE nonblanks(nonblank(s))
        token(r) ==
            IF Failed(r.p) THEN Scanned(r.p, NO_TOKEN)
            ELSE Scanned(IF r.leading_blanks
                         THEN [r.p EXCEPT !.simple_key_allowed = TRUE]
                         ELSE r.p,
                         SCALAR_TOKEN_INIT(r.string, "PLAIN", start_mark,
                                           r.end_mark))
    IN token(scan(ScanState(p)))

\* The characters the one-letter escapes of a double-quoted scalar stand for.
Escape(c) ==
    CASE c = "0" -> <<"x00">> [] c = "a" -> <<"x07">> [] c = "b" -> <<"x08">>
      [] c \in {"t", "\t"} -> <<"\t">> [] c = "n" -> <<"\n">>
      [] c = "v" -> <<"x0B">> [] c = "f" -> <<"x0C">> [] c = "r" -> <<"\r">>
      [] c = "e" -> <<"x1B">> [] c = " " -> <<" ">> [] c = "\"" -> <<"\"">>
      [] c = "/" -> <<"/">> [] c = "\\" -> <<"\\">>
      [] c = "N" -> <<"xC2", "x85">> [] c = "_" -> <<"xC2", "xA0">>
      [] c = "L" -> <<"xE2", "x80", "xA8">>
      [] c = "P" -> <<"xE2", "x80", "xA9">>
      [] OTHER -> <<>>

yaml_parser_scan_flow_scalar(p, single) ==
    LET start_mark == p.mark
        quote == IF single THEN "'" ELSE "\""
        error(s, context, problem) ==
            [s EXCEPT !.p = yaml_parser_set_scanner_error(
                                s.p, context, start_mark, problem)]
        RECURSIVE hex(_, _, _)
        hex(q, k, value) ==
            IF k = 0 THEN value
            ELSE hex(SKIP(q), k - 1, value * 16 + AS_HEX(At(q, 0)))
        RECURSIVE skip(_, _)
        skip(q, k) == IF k = 0 THEN q ELSE skip(SKIP(q), k - 1)
        RECURSIVE nonblank(_)
        \* a backslash and the character e after it; q2 is past the two
        escape(s, e, q2) ==
            LET code_length == CASE e = "x" -> 2 [] e = "u" -> 4
                                 [] e = "U" -> 8 [] OTHER -> 0
                unicode(value) ==
                    IF value \in 55296..57343 \/ value > 1114111
                    THEN error([s EXCEPT !.p = q2],
                               "while parsing a quoted scalar",
                               "found invalid Unicode character escape code")
                    ELSE nonblank([s EXCEPT !.string = @ \o Utf8(value),
                                            !.p = skip(q2, code_length)])
            IN IF code_length = 0
               THEN IF Escape(e) = <<>>
                    THEN error(s, "while parsing a quoted scalar",
                               "found unknown escape character")
                    ELSE nonblank([s EXCEPT !.string = @ \o Escape(e),
                                            !.p = q2])
               ELSE IF \E k \in 0..(code_length - 1) : ~IS_HEX(At(q2, k))
               THEN error([s EXCEPT !.p = q2],
                          "while parsing a quoted scalar",
                          "did not find expected hexdecimal number")
               ELSE unicode(hex(q2, code_length, 0))
        nonblank(s) ==
            LET q == s.p
                c == At(q, 0)
                e == At(q, 1)
            IN IF IS_BLANKZ(c) THEN s
               ELSE IF single /\ c = "'" /\ e = "'"
               THEN nonblank([s EXCEPT !.string = Append(@, "'"),
                                       !.p = SKIP(SKIP(q))])
               ELSE IF c = quote THEN s
               ELSE IF ~single /\ c = "\\" /\ IS_BREAK(e)
               THEN [s EXCEPT !.p = SKIP_LINE(SKIP(q)), !.leading_blanks = TRUE]
               ELSE IF ~single /\ c = "\\" THEN escape(s, e, SKIP(SKIP(q)))
               ELSE nonblank([s EXCEPT !.string = @ \o COPY(q), !.p = SKIP(q)])
        RECURSIVE scan(_)
        \* after the blanks and breaks: they are folded into the string
        blanks(s2) ==
            scan(IF s2.leading_blanks
                 THEN [s2 EXCEPT !.string = FoldBreaks(
                          @, s2.leading_break, s2.trailing_breaks),
                          !.leading_break = <<>>,
                          !.trailing_breaks = <<>>]
                 ELSE [s2 EXCEPT !.string = @ \o s2.whitespaces,
                                 !.whitespaces = <<>>])
        \* after the non-blank characters
        nonblanks(s1) ==
            IF Failed(s1.p) \/ At(s1.p, 0) = quote THEN s1
            ELSE blanks(ScanBlanks(s1, -1, start_mark))
        scan(s) ==
            IF AtDocumentIndicator(s.p)
            THEN error(s, "while scanning a quoted scalar",
                       "found unexpected document indicator")
            ELSE IF At(s.p, 0) = NUL
            THEN error(s, "while scanning a quoted scalar",
                       "found unexpected end of stream")
            ELSE nonblanks(nonblank([s EXCEPT !.leading_blanks = FALSE]))
        closed(r, q) ==
            Scanned(q, SCALAR_TOKEN_INIT(r.string,
                           IF single THEN "SINGLE_QUOTED" ELSE "DOUBLE_QUOTED",
                           start_mark, q.mark))
        token(r) ==
            IF Failed(r.p) THEN Scanned(r.p, NO_TOKEN)
            ELSE closed(r, SKIP(r.p))
    IN token(scan(ScanState(SKIP(p))))

yaml_parser_scan_block_scalar_breaks(p, indent, breaks, start_mark) ==
    LET RECURSIVE spaces(_)
        spaces(q) ==
            IF (indent = 0 \/ q.mark.column < indent) /\ At(q, 0) = " "
            THEN spaces(SKIP(q)) ELSE q
        RECURSIVE loop(_, _, _, _)
        \* q1 is past the indentation spaces of a line
        line(q1, brk, max_indent, end_mark) ==
            LET m == IF q1.mark.column > max_indent
                     THEN q1.mark.column ELSE max_indent
                next(q2) == loop(q2, Append(brk, "\n"), m, q2.mark)
            IN IF (indent = 0 \/ q1.mark.column < indent) /\ At(q1, 0) = "\t"
               THEN [p |-> yaml_parser_set_scanner_error(q1,
                         "while scanning a block scalar", start_mark,
                         "found a tab character where an indentation space is expected"),
                     breaks |-> brk, max_indent |-> m, end_mark |-> end_mark]
               ELSE IF ~IS_BREAK(At(q1, 0))
               THEN [p |-> q1, breaks |-> brk, max_indent |-> m,
                     end_mark |-> end_mark]
               ELSE next(SKIP_LINE(q1))
        loop(q, brk, max_indent, end_mark) ==
            line(spaces(q), brk, max_indent, end_mark)
        least == IF p.indent + 1 < 1 THEN 1 ELSE p.indent + 1
        result(r) ==
            [p |-> r.p, breaks |-> r.breaks, end_mark |-> r.end_mark,
             indent |-> IF indent # 0 THEN indent
                        ELSE IF r.max_indent < least THEN least
                        ELSE r.max_indent]
    IN result(loop(p, breaks, 0, p.mark))

yaml_parser_scan_block_scalar(p, literal) ==
    LET start_mark == p.mark
        sign(c) == IF c = "+" THEN 1 ELSE -1
        zero(q) == yaml_parser_set_scanner_error(q,
                       "while scanning a block scalar", start_mark,
                       "found an indentation indicator equal to 0")
        \* the chomping and the indentation indicators, in either order;
        \* p1 is past the '|' or '>', p2 past the first indicator
        header(p1, p2) ==
            LET c1 == At(p1, 0)
                c2 == At(p2, 0)
            IN IF c1 \in {"+", "-"}
               THEN IF IS_DIGIT(c2)
                    THEN IF c2 = "0"
                         THEN [p |-> zero(p2), chomping |-> sign(c1),
                               increment |-> 0]
                         ELSE [p |-> SKIP(p2), chomping |-> sign(c1),
                               increment |-> AS_DIGIT(c2)]
                    ELSE [p |-> p2, chomping |-> sign(c1), increment |-> 0]
               ELSE IF IS_DIGIT(c1)
               THEN IF c1 = "0"
                    THEN [p |-> zero(p1), chomping |-> 0, increment |-> 0]
                    ELSE IF c2 \in {"+", "-"}
                    THEN [p |-> SKIP(p2), chomping |-> sign(c2),
                          increment |-> AS_DIGIT(c1)]
                    ELSE [p |-> p2, chomping |-> 0,
                          increment |-> AS_DIGIT(c1)]
               ELSE [p |-> p1, chomping |-> 0, increment |-> 0]
        RECURSIVE blanks(_)
        blanks(q) == IF IS_BLANK(At(q, 0)) THEN blanks(SKIP(q)) ELSE q
        RECURSIVE comment(_)
        comment(q) == IF ~IS_BREAKZ(At(q, 0)) THEN comment(SKIP(q)) ELSE q
        RECURSIVE line(_, _)
        line(q, string) ==
            IF ~IS_BREAKZ(At(q, 0))
            THEN line(SKIP(q), string \o COPY(q))
            ELSE [p |-> q, string |-> string]
        RECURSIVE content(_)
        \* after the breaks b that follow the line l of the content
        breaks(s, l, b, trailing_blank) ==
            IF Failed(b.p) THEN [s EXCEPT !.p = b.p]
            ELSE content([p |-> b.p, string |-> l.string,
                          leading_break |-> IF IS_BREAK(At(l.p, 0))
                                            THEN <<"\n">> ELSE <<>>,
                          trailing_breaks |-> b.breaks,
                          leading_blank |-> trailing_blank,
                          indent |-> b.indent,
                          end_mark |-> b.end_mark])
        text(s, l, trailing_blank) ==
            breaks(s, l, yaml_parser_scan_block_scalar_breaks(
                             SKIP_LINE(l.p), s.indent, <<>>, start_mark),
                   trailing_blank)
        content(s) ==
            LET q == s.p
                trailing_blank == IS_BLANK(At(q, 0))
                folded == IF ~literal /\ s.leading_break # <<>>
                             /\ s.leading_break[1] = "\n"
                             /\ ~s.leading_blank /\ ~trailing_blank
                          THEN IF s.trailing_breaks = <<>>
                               THEN Append(s.string, " ") ELSE s.string
                          ELSE s.string \o s.leading_break
            IN IF q.mark.column = s.indent /\ At(q, 0) # NUL
               THEN text(s, line(q, folded \o s.trailing_breaks),
                         trailing_blank)
               ELSE s
        token(hdr, r) ==
            IF Failed(r.p) THEN Scanned(r.p, NO_TOKEN)
            ELSE Scanned(r.p, SCALAR_TOKEN_INIT(
                     r.string
                     \o (IF hdr.chomping # -1 THEN r.leading_break ELSE <<>>)
                     \o (IF hdr.chomping = 1 THEN r.trailing_breaks ELSE <<>>),
                     IF literal THEN "LITERAL" ELSE "FOLDED",
                     start_mark, r.end_mark))
        \* after the leading breaks b0 of the content
        body(hdr, b0) ==
            IF Failed(b0.p) THEN Scanned(b0.p, NO_TOKEN)
            ELSE token(hdr, content([p |-> b0.p, string |-> <<>>,
                                     leading_break |-> <<>>,
                                     trailing_breaks |-> b0.breaks,
                                     leading_blank |-> FALSE,
                                     indent |-> b0.indent,
                                     end_mark |-> b0.end_mark]))
        \* p3 is at the end of the header line
        eol(hdr, p3) ==
            IF ~IS_BREAKZ(At(p3, 0))
            THEN Scanned(yaml_parser_set_scanner_error(p3,
                             "while scanning a block scalar", start_mark,
                             "did not find expected comment or line break"),
                         NO_TOKEN)
            ELSE body(hdr, yaml_parser_scan_block_scalar_breaks(
                               SKIP_LINE(p3),
                               IF hdr.increment # 0
                               THEN IF p.indent >= 0
                                    THEN p.indent + hdr.increment
                                    ELSE hdr.increment
                               ELSE 0,
                               <<>>, start_mark))
        tail(hdr, p2) == eol(hdr, IF At(p2, 0) = "#" THEN comment(p2) ELSE p2)
        rest(hdr) ==
            IF Failed(hdr.p) THEN Scanned(hdr.p, NO_TOKEN)
            ELSE tail(hdr, blanks(hdr.p))
        indicators(p1) == rest(header(p1, SKIP(p1)))
    IN indicators(SKIP(p))

yaml_parser_scan_tag_handle(p, directive, start_mark) ==
    LET RECURSIVE alpha(_, _)
        alpha(q, string) ==
            IF IS_ALPHA(At(q, 0)) THEN alpha(SKIP(q), Append(string, At(q, 0)))
            ELSE [p |-> q, string |-> string]
        handle(a) ==
            IF At(a.p, 0) = "!"
            THEN [p |-> SKIP(a.p), string |-> Append(a.string, "!")]
            ELSE IF directive /\ a.string # <<"!">>
            THEN [p |-> yaml_parser_set_scanner_error(a.p,
                            "while parsing a tag directive", start_mark,
                            "did not find expected '!'"),
                  string |-> <<>>]
            ELSE a
    IN IF At(p, 0) # "!"
       THEN [p |-> yaml_parser_set_scanner_error(p,
                       IF directive THEN "while scanning a tag directive"
                       ELSE "while scanning a tag",
                       start_mark, "did not find expected '!'"),
             string |-> <<>>]
       ELSE handle(alpha(SKIP(p), <<"!">>))

yaml_parser_scan_tag_uri(p, uri_char, directive, head, start_mark) ==
    LET context == IF directive THEN "while parsing a %TAG directive"
                   ELSE "while parsing a tag"
        fail(q, problem) ==
            yaml_parser_set_scanner_error(q, context, start_mark, problem)
        \* yaml_parser_scan_uri_escapes: the octets of one escaped character
        RECURSIVE escapes(_, _, _)
        escapes(q, string, width) ==
            LET leading(octet) ==
                    IF width # 0 THEN width
                    ELSE IF octet < 128 THEN 1
                    ELSE IF octet \div 32 = 6 THEN 2
                    ELSE IF octet \div 16 = 14 THEN 3
                    ELSE IF octet \div 8 = 30 THEN 4 ELSE 0
                copy(octet, w, q3) ==
                    IF w = 0
                    THEN [p |-> fail(q, "found an incorrect leading UTF-8 octet"),
                          string |-> string]
                    ELSE IF width # 0 /\ octet \div 64 # 2
                    THEN [p |-> fail(q, "found an incorrect trailing UTF-8 octet"),
                          string |-> string]
                    ELSE IF w = 1
                    THEN [p |-> q3, string |-> Append(string, BYTE[octet + 1])]
                    ELSE escapes(q3, Append(string, BYTE[octet + 1]), w - 1)
                octets(octet) == copy(octet, leading(octet), SKIP(SKIP(SKIP(q))))
            IN IF ~(At(q, 0) = "%" /\ IS_HEX(At(q, 1)) /\ IS_HEX(At(q, 2)))
               THEN [p |-> fail(q, "did not find URI escaped octet"),
                     string |-> string]
               ELSE octets(AS_HEX(At(q, 1)) * 16 + AS_HEX(At(q, 2)))
        RECURSIVE uri(_, _, _)
        escaped(e, string, length) ==
            IF Failed(e.p)
            THEN [p |-> e.p, string |-> string, length |-> length]
            ELSE uri(e.p, e.string, length + 1)
        uri(q, string, length) ==
            LET c == At(q, 0)
            IN IF IS_ALPHA(c)
                  \/ c \in {";", "/", "?", ":", "@", "&", "=", "+", "$", ".",
                            "%", "!", "~", "*", "'", "(", ")"}
                  \/ (uri_char /\ c \in {",", "[", "]"})
               THEN IF c = "%"
                    THEN escaped(escapes(q, string, 0), string, length)
                    ELSE uri(SKIP(q), Append(string, c), length + 1)
               ELSE [p |-> q, string |-> string, length |-> length]
        result(r) ==
            IF Failed(r.p) THEN [p |-> r.p, string |-> <<>>]
            ELSE IF r.length = 0
            THEN [p |-> fail(r.p, "did not find expected tag URI"),
                  string |-> <<>>]
            ELSE [p |-> r.p, string |-> r.string]
    IN result(uri(p, IF head # NULL /\ Len(head) > 1
                     THEN SubSeq(head, 2, Len(head)) ELSE <<>>,
                  IF head # NULL THEN Len(head) ELSE 0))

yaml_parser_scan_tag(p) ==
    LET start_mark == p.mark
        Tag(q, handle, suffix) == [p |-> q, handle |-> handle, suffix |-> suffix]
        \* the verbatim form !<...>
        verbatim(v) ==
            IF Failed(v.p) THEN Tag(v.p, <<>>, <<>>)
            ELSE IF At(v.p, 0) # ">"
            THEN Tag(yaml_parser_set_scanner_error(v.p,
                         "while scanning a tag", start_mark,
                         "did not find the expected '>'"), <<>>, <<>>)
            ELSE Tag(SKIP(v.p), <<>>, v.string)
        \* the forms !suffix and !handle!suffix
        suffix(h, isHandle, s) ==
            IF Failed(s.p) THEN Tag(s.p, <<>>, <<>>)
            ELSE IF isHandle THEN Tag(s.p, h.string, s.string)
            ELSE IF s.string = <<>> THEN Tag(s.p, <<>>, <<"!">>)
            ELSE Tag(s.p, <<"!">>, s.string)
        shorthand(h) ==
            LET isHandle == Len(h.string) > 1 /\ h.string[Len(h.string)] = "!"
            IN IF Failed(h.p) THEN Tag(h.p, <<>>, <<>>)
               ELSE suffix(h, isHandle,
                           yaml_parser_scan_tag_uri(h.p, FALSE, FALSE,
                               IF isHandle THEN NULL ELSE h.string,
                               start_mark))
        token(r) ==
            IF Failed(r.p) THEN Scanned(r.p, NO_TOKEN)
            ELSE IF ~IS_BLANKZ(At(r.p, 0))
                    /\ (r.p.flow_level = 0 \/ At(r.p, 0) # ",")
            THEN Scanned(yaml_parser_set_scanner_error(r.p,
                             "while scanning a tag", start_mark,
                             "did not find expected whitespace or line break"),
                         NO_TOKEN)
            ELSE Scanned(r.p, [TOKEN_INIT("TAG", start_mark, r.p.mark)
                                  EXCEPT !.handle = r.handle,
                                         !.value = r.suffix])
    IN token(IF At(p, 1) = "<"
             THEN verbatim(yaml_parser_scan_tag_uri(SKIP(SKIP(p)), TRUE, FALSE,
                                                    NULL, start_mark))
             ELSE shorthand(yaml_parser_scan_tag_handle(p, FALSE, start_mark)))

yaml_parser_scan_directive(p) ==
    LET start_mark == p.mark
        fail(q, context, problem) ==
            yaml_parser_set_scanner_error(q, context, start_mark, problem)
        RECURSIVE blanks(_)
        blanks(q) == IF IS_BLANK(At(q, 0)) THEN blanks(SKIP(q)) ELSE q
        RECURSIVE comment(_)
        comment(q) == IF ~IS_BREAKZ(At(q, 0)) THEN comment(SKIP(q)) ELSE q
        \* yaml_parser_scan_directive_name
        RECURSIVE alpha(_, _)
        alpha(q, string) ==
            IF IS_ALPHA(At(q, 0)) THEN alpha(SKIP(q), Append(string, At(q, 0)))
            ELSE [p |-> q, string |-> string]
        name(n0) ==
            IF n0.string = <<>>
            THEN [n0 EXCEPT !.p = fail(n0.p, "while scanning a directive",
                     "could not find expected directive name")]
            ELSE IF ~IS_BLANKZ(At(n0.p, 0))
            THEN [n0 EXCEPT !.p = fail(n0.p, "while scanning a directive",
                     "found unexpected non-alphabetical character")]
            ELSE n0
        \* yaml_parser_scan_version_directive_number
        RECURSIVE digits(_, _, _)
        digits(q, value, length) ==
            IF IS_DIGIT(At(q, 0))
            THEN IF length + 1 > MAX_NUMBER_LENGTH
                 THEN [p |-> fail(q, "while scanning a %YAML directive",
                                  "found extremely long version number"),
                       value |-> value]
                 ELSE digits(SKIP(q), value * 10 + AS_DIGIT(At(q, 0)), length + 1)
            ELSE IF length = 0
            THEN [p |-> fail(q, "while scanning a %YAML directive",
                             "did not find expected version number"),
                  value |-> value]
            ELSE [p |-> q, value |-> value]
        \* yaml_parser_scan_version_directive_value
        minor(major, n) ==
            IF Failed(n.p) THEN Scanned(n.p, NO_TOKEN)
            ELSE Scanned(n.p,
                     [TOKEN_INIT("VERSION_DIRECTIVE", start_mark, n.p.mark)
                         EXCEPT !.major = major.value, !.minor = n.value])
        version(major) ==
            IF Failed(major.p) THEN Scanned(major.p, NO_TOKEN)
            ELSE IF At(major.p, 0) # "."
            THEN Scanned(fail(major.p, "while scanning a %YAML directive",
                              "did not find expected digit or '.' character"),
                         NO_TOKEN)
            ELSE minor(major, digits(SKIP(major.p), 0, 0))
        \* yaml_parser_scan_tag_directive_value
        prefix(handle, x) ==
            IF Failed(x.p) THEN Scanned(x.p, NO_TOKEN)
            ELSE IF ~IS_BLANKZ(At(x.p, 0))
            THEN Scanned(fail(x.p, "while scanning a %TAG directive",
                              "did not find expected whitespace or line break"),
                         NO_TOKEN)
            ELSE Scanned(x.p,
                     [TOKEN_INIT("TAG_DIRECTIVE", start_mark, x.p.mark)
                         EXCEPT !.handle = handle.string, !.value = x.string])
        tag(handle) ==
            IF Failed(handle.p) THEN Scanned(handle.p, NO_TOKEN)
            ELSE IF ~IS_BLANK(At(handle.p, 0))
            THEN Scanned(fail(handle.p, "while scanning a %TAG directive",
                              "did not find expected whitespace"), NO_TOKEN)
            ELSE prefix(handle,
                        yaml_parser_scan_tag_uri(blanks(handle.p), TRUE, TRUE,
                                                 NULL, start_mark))
        value(n) ==
            IF Failed(n.p) THEN Scanned(n.p, NO_TOKEN)
            ELSE IF n.string = <<"Y", "A", "M", "L">>
            THEN version(digits(blanks(n.p), 0, 0))
            ELSE IF n.string = <<"T", "A", "G">>
            THEN tag(yaml_parser_scan_tag_handle(blanks(n.p), TRUE,
                                                 start_mark))
            ELSE Scanned(fail(n.p, "while scanning a directive",
                              "found unknown directive name"), NO_TOKEN)
        \* the rest of the line
        eol(d, p2) ==
            IF ~IS_BREAKZ(At(p2, 0))
            THEN Scanned(fail(p2, "while scanning a directive",
                              "did not find expected comment or line break"),
                         NO_TOKEN)
            ELSE Scanned(SKIP_LINE(p2), d.token)
        tail(d, p1) == eol(d, IF At(p1, 0) = "#" THEN comment(p1) ELSE p1)
        rest(d) == IF Failed(d.p) THEN d ELSE tail(d, blanks(d.p))
    IN rest(value(name(alpha(SKIP(p), <<>>))))

\* The fetchers of the tokens that carry a value: the simple key is saved
\* (or removed), the token scanned and appended to the queue.
FetchSaved(p, save, allowed) ==
    LET saved(p1) ==
            IF Failed(p1) THEN p1 ELSE [p1 EXCEPT !.simple_key_allowed = allowed]
    IN saved(IF save THEN yaml_parser_save_simple_key(p)
             ELSE yaml_parser_remove_simple_key(p))

FetchScanned(p1, s) ==
    IF Failed(p1) THEN p1
    ELSE IF Failed(s.p) THEN s.p ELSE ENQUEUE(s.p, s.token)

yaml_parser_fetch_directive(p) ==
    LET p1 == FetchSaved(yaml_parser_unroll_indent(p, -1), FALSE, FALSE)
    IN FetchScanned(p1, yaml_parser_scan_directive(p1))

yaml_parser_fetch_anchor(p, type) ==
    LET p1 == FetchSaved(p, TRUE, FALSE)
    IN FetchScanned(p1, yaml_parser_scan_anchor(p1, type))

yaml_parser_fetch_tag(p) ==
    LET p1 == FetchSaved(p, TRUE, FALSE)
    IN FetchScanned(p1, yaml_parser_scan_tag(p1))

yaml_parser_fetch_block_scalar(p, literal) ==
    LET p1 == FetchSaved(p, FALSE, TRUE)
    IN FetchScanned(p1, yaml_parser_scan_block_scalar(p1, literal))

yaml_parser_fetch_flow_scalar(p, single) ==
    LET p1 == FetchSaved(p, TRUE, FALSE)
    IN FetchScanned(p1, yaml_parser_scan_flow_scalar(p1, single))

yaml_parser_fetch_plain_scalar(p) ==
    LET p1 == FetchSaved(p, TRUE, FALSE)
    IN FetchScanned(p1, yaml_parser_scan_plain_scalar(p1))

(***************************************************************************)
(* A call of one of the larger functions of the library, by its name.      *)
(* TLC's coverage follows every call into the operator called; the calls   *)
(* of a function that has many callers go through this one operator, which *)
(* keeps what is followed as large as the model and no larger.             *)
(***************************************************************************)
RECURSIVE Invoke(_, _)

(***************************************************************************)
(* The dispatcher for token fetchers.                                      *)
(***************************************************************************)
\* The second half of yaml_parser_fetch_next_token: the fetcher is chosen by
\* the character at the mark, q being the parser with the indentation
\* levels unrolled to the column of the mark.
FetchToken(q) ==
    LET c == At(q, 0)
        n == At(q, 1)
        flow == q.flow_level # 0
    IN IF c = NUL THEN yaml_parser_fetch_stream_end(q)
       ELSE IF q.mark.column = 0 /\ c = "%" THEN yaml_parser_fetch_directive(q)
       ELSE IF AtDocumentIndicator(q) /\ c = "-"
       THEN yaml_parser_fetch_document_indicator(q, "DOCUMENT_START")
       ELSE IF AtDocumentIndicator(q) /\ c = "."
       THEN yaml_parser_fetch_document_indicator(q, "DOCUMENT_END")
       ELSE IF c = "["
       THEN yaml_parser_fetch_flow_collection_start(q, "FLOW_SEQUENCE_START")
       ELSE IF c = "{"
       THEN yaml_parser_fetch_flow_collection_start(q, "FLOW_MAPPING_START")
       ELSE IF c = "]"
       THEN yaml_parser_fetch_flow_collection_end(q, "FLOW_SEQUENCE_END")
       ELSE IF c = "}"
       THEN yaml_parser_fetch_flow_collection_end(q, "FLOW_MAPPING_END")
       ELSE IF c = "," THEN yaml_parser_fetch_flow_entry(q)
       ELSE IF c = "-" /\ IS_BLANKZ(n) THEN yaml_parser_fetch_block_entry(q)
       ELSE IF c = "?" /\ (flow \/ IS_BLANKZ(n)) THEN yaml_parser_fetch_key(q)
       ELSE IF c = ":" /\ (flow \/ IS_BLANKZ(n)) THEN yaml_parser_fetch_value(q)
       ELSE IF c = "*" THEN yaml_parser_fetch_anchor(q, "ALIAS")
       ELSE IF c = "&" THEN yaml_parser_fetch_anchor(q, "ANCHOR")
       ELSE IF c = "!" THEN yaml_parser_fetch_tag(q)
       ELSE IF c \in {"|", ">"} /\ ~flow
       THEN yaml_parser_fetch_block_scalar(q, c = "|")
       ELSE IF c \in {"'", "\""} THEN yaml_parser_fetch_flow_scalar(q, c = "'")
       ELSE IF ~(IS_BLANKZ(c)
                 \/ c \in {"-", "?", ":", ",", "[", "]", "{", "}", "#", "&",
                           "*", "!", "|", ">", "'", "\"", "%", "@", "BACKTICK"})
               \/ (c = "-" /\ ~IS_BLANK(n))
               \/ (~flow /\ c \in {"?", ":"} /\ ~IS_BLANKZ(n))
       THEN yaml_parser_fetch_plain_scalar(q)
       ELSE yaml_parser_set_scanner_error(q,
                "while scanning for the next token", q.mark,
                "found character that cannot start any token")

\* The first half: the stream start, the blanks and comments before the
\* token, the simple keys gone stale.
yaml_parser_fetch_next_token(p) ==
    LET p2 == yaml_parser_stale_simple_keys(yaml_parser_scan_to_next_token(p))
    IN IF ~p.stream_start_produced THEN yaml_parser_fetch_stream_start(p)
       ELSE IF Failed(p2) THEN p2
       ELSE FetchToken(yaml_parser_unroll_indent(p2, p2.mark.column))

(***************************************************************************)
(* Ensure that the tokens queue holds a token the parser may take.         *)
(***************************************************************************)
RECURSIVE yaml_parser_fetch_more_tokens(_)
yaml_parser_fetch_more_tokens(p) ==
    LET p1 == IF p.tokens = <<>> THEN p ELSE yaml_parser_stale_simple_keys(p)
        need_more_tokens ==
            \/ p.tokens = <<>>
            \/ \E i \in 1..Len(p1.simple_keys) :
                   /\ p1.simple_keys[i].possible
                   /\ p1.simple_keys[i].token_number = p1.tokens_parsed
        fetched(p2) ==
            IF Failed(p2) THEN p2 ELSE yaml_parser_fetch_more_tokens(p2)
    IN IF Failed(p1) THEN p1
       ELSE IF ~need_more_tokens THEN [p1 EXCEPT !.token_available = TRUE]
       ELSE fetched(yaml_parser_fetch_next_token(p1))

(***************************************************************************)
(* The parser: tokens in, events out.  Each parsing function returns the   *)
(* parser and the event it has initialized (NO_EVENT when it returns 0).   *)
(***************************************************************************)
EVENT_INIT(type, start_mark, end_mark) ==
    [type |-> type, start_mark |-> start_mark, end_mark |-> end_mark,
     anchor |-> NULL, tag |-> NULL, value |-> <<>>, implicit |-> FALSE,
     plain_implicit |-> FALSE, quoted_implicit |-> FALSE, style |-> "ANY",
     version_directive |-> <<>>, tag_directives |-> <<>>]

SCALAR_EVENT_INIT(anchor, tag, value, plain_implicit, quoted_implicit, style, start_mark, end_mark) ==
    [EVENT_INIT("SCALAR", start_mark, end_mark)
        EXCEPT !.anchor = anchor, !.tag = tag, !.value = value,
               !.plain_implicit = plain_implicit,
               !.quoted_implicit = quoted_implicit, !.style = style]

NO_EVENT == EVENT_INIT("NO", Mark0, Mark0)

Parsed(p, event) ==
    [p |-> p, event |-> event, result |-> IF Failed(p) THEN 0 ELSE 1]

PEEK_TOKEN(p) ==
    IF p.token_available THEN p
    ELSE Invoke("yaml_parser_fetch_more_tokens", <<p>>)

SKIP_TOKEN(p) ==
    [p EXCEPT !.token_available = FALSE,
              !.tokens_parsed = @ + 1,
              !.stream_end_produced = (Head(p.tokens).type = "STREAM_END"),
              !.tokens = Tail(@)]

PUSH(stack, value) == Append(stack, value)

Top(stack) == stack[Len(stack)]

Pop(stack) == SubSeq(stack, 1, Len(stack) - 1)

yaml_parser_set_parser_error(p, problem, problem_mark) ==
    [p EXCEPT !.error = "PARSER", !.problem = problem,
              !.problem_mark = problem_mark]

yaml_parser_set_parser_error_context(p, context, context_mark, problem, problem_mark) ==
    [p EXCEPT !.error = "PARSER", !.context = context,
              !.context_mark = context_mark, !.problem = problem,
              !.problem_mark = problem_mark]

yaml_maximum_level_reached(p, context_mark, problem_mark) ==
    yaml_parser_set_parser_error_context(p, "while parsing", context_mark,
        "Maximum nesting level reached, set with yaml_set_max_nest_level())",
        problem_mark)

STACK_LIMIT(stack, size) == Len(stack) < size

\* A variant of yaml_parser_process_empty_scalar whose scalar is not implicit.
yaml_parser_process_empty_scalar_explicit(p, mark) ==
    Parsed(p, SCALAR_EVENT_INIT(NULL, NULL, <<>>, FALSE, FALSE, "PLAIN",
                                mark, mark))

yaml_parser_process_empty_scalar(p, mark) ==
    Parsed(p, SCALAR_EVENT_INIT(NULL, NULL, <<>>, TRUE, FALSE, "PLAIN",
                                mark, mark))

\* A variant of yaml_parser_append_tag_directive in which the directive
\* replaces the one registered for its handle.
yaml_parser_append_tag_directive_replace(p, value, allow_duplicates, mark) ==
    [p EXCEPT !.tag_directives =
                  PUSH(SelectSeq(@, LAMBDA d : d.handle # value.handle), value)]

\* A variant of yaml_parser_append_tag_directive that registers the default
\* directives only.
yaml_parser_append_tag_directive_defaults(p, value, allow_duplicates, mark) ==
    IF allow_duplicates /\ \A i \in 1..Len(p.tag_directives) :
                               p.tag_directives[i].handle # value.handle
    THEN [p EXCEPT !.tag_directives = PUSH(@, value)]
    ELSE p

\* A variant of yaml_parser_append_tag_directive in which a later %TAG
\* directive of the document replaces the one registered for its handle.
yaml_parser_append_tag_directive_later(p, value, allow_duplicates, mark) ==
    IF \E i \in 1..Len(p.tag_directives) :
           p.tag_directives[i].handle = value.handle
    THEN IF allow_duplicates THEN p
         ELSE [p EXCEPT !.tag_directives =
                   PUSH(SelectSeq(@, LAMBDA d : d.handle # value.handle),
                        value)]
    ELSE [p EXCEPT !.tag_directives = PUSH(@, value)]

yaml_parser_append_tag_directive(p, value, allow_duplicates, mark) ==
    IF \E i \in 1..Len(p.tag_directives) :
           p.tag_directives[i].handle = value.handle
    THEN IF allow_duplicates THEN p
         ELSE yaml_parser_set_parser_error(p,
                  "found duplicate %TAG directive", mark)
    ELSE [p EXCEPT !.tag_directives = PUSH(@, value)]

yaml_parser_process_directives(p) ==
    LET default_tag_directives ==
            << [handle |-> <<"!">>, prefix |-> <<"!">>],
               [handle |-> <<"!", "!">>,
                prefix |-> <<"t", "a", "g", ":", "y", "a", "m", "l", ".",
                             "o", "r", "g", ",", "2", "0", "0", "2", ":">>] >>
        Result(q, version_directive, tag_directives) ==
            [p |-> q, version_directive |-> version_directive,
             tag_directives |-> tag_directives]
        RECURSIVE directives(_, _, _)
        directives(q, version_directive, tag_directives) ==
            LET token == Head(q.tokens)
                value == [handle |-> token.handle, prefix |-> token.value]
                a == yaml_parser_append_tag_directive(q, value, FALSE,
                                                      token.start_mark)
                d1 == yaml_parser_append_tag_directive(q,
                          default_tag_directives[1], TRUE, token.start_mark)
                d2 == yaml_parser_append_tag_directive(d1,
                          default_tag_directives[2], TRUE, token.start_mark)
            IN IF Failed(q) THEN Result(q, <<>>, <<>>)
               ELSE IF token.type = "VERSION_DIRECTIVE"
               THEN IF version_directive # <<>>
                    THEN Result(yaml_parser_set_parser_error(q,
                                    "found duplicate %YAML directive",
                                    token.start_mark), <<>>, <<>>)
                    ELSE IF token.major # 1
                            \/ (token.minor # 1 /\ token.minor # 2)
                    THEN Result(yaml_parser_set_parser_error(q,
                                    "found incompatible YAML document",
                                    token.start_mark), <<>>, <<>>)
                    ELSE directives(PEEK_TOKEN(SKIP_TOKEN(q)),
                                    <<token.major, token.minor>>,
                                    tag_directives)
               ELSE IF token.type = "TAG_DIRECTIVE"
               THEN IF Failed(a) THEN Result(a, <<>>, <<>>)
                    ELSE directives(PEEK_TOKEN(SKIP_TOKEN(a)),
                                    version_directive,
                                    PUSH(tag_directives, value))
               ELSE Result(d2, version_directive, tag_directives)
    IN directives(PEEK_TOKEN(p), <<>>, <<>>)

yaml_parser_parse_stream_start(p) ==
    LET p1 == PEEK_TOKEN(p)
        token == Head(p1.tokens)
    IN IF Failed(p1) THEN Parsed(p1, NO_EVENT)
       ELSE IF token.type # "STREAM_START"
       THEN Parsed(yaml_parser_set_parser_error(p1,
                       "did not find expected <stream-start>",
                       token.start_mark), NO_EVENT)
       ELSE Parsed(SKIP_TOKEN([p1 EXCEPT !.state = "IMPLICIT_DOCUMENT_START"]),
                   EVENT_INIT("STREAM_START", token.start_mark,
                              token.start_mark))

yaml_parser_parse_document_start(p, implicit) ==
    LET RECURSIVE ends(_)
        ends(q) ==
            IF ~Failed(q) /\ Head(q.tokens).type = "DOCUMENT_END"
            THEN ends(PEEK_TOKEN(SKIP_TOKEN(q))) ELSE q
        \* the document starts at the first token of p1; d is the outcome
        \* of yaml_parser_process_directives
        implicit_document(p1, d) ==
            LET token == Head(p1.tokens)
            IN IF Failed(d.p) THEN Parsed(d.p, NO_EVENT)
               ELSE Parsed([d.p EXCEPT !.states = PUSH(@, "DOCUMENT_END"),
                                       !.state = "BLOCK_NODE"],
                           [EVENT_INIT("DOCUMENT_START", token.start_mark,
                                       token.start_mark)
                               EXCEPT !.implicit = TRUE])
        explicit_document(p1, d) ==
            LET token == Head(p1.tokens)
                start == Head(d.p.tokens)
            IN IF Failed(d.p) THEN Parsed(d.p, NO_EVENT)
               ELSE IF start.type # "DOCUMENT_START"
               THEN Parsed(yaml_parser_set_parser_error(d.p,
                               "did not find expected <document start>",
                               start.start_mark), NO_EVENT)
               ELSE Parsed(SKIP_TOKEN(
                               [d.p EXCEPT !.states = PUSH(@, "DOCUMENT_END"),
                                           !.state = "DOCUMENT_CONTENT"]),
                           [EVENT_INIT("DOCUMENT_START", token.start_mark,
                                       start.end_mark)
                               EXCEPT !.version_directive = d.version_directive,
                                      !.tag_directives = d.tag_directives])
        start(p1) ==
            LET token == Head(p1.tokens)
            IN IF Failed(p1) THEN Parsed(p1, NO_EVENT)
               ELSE IF implicit /\ token.type \notin {"VERSION_DIRECTIVE",
                        "TAG_DIRECTIVE", "DOCUMENT_START", "STREAM_END"}
               THEN implicit_document(p1, yaml_parser_process_directives(p1))
               ELSE IF token.type # "STREAM_END"
               THEN explicit_document(p1, yaml_parser_process_directives(p1))
               ELSE Parsed(SKIP_TOKEN([p1 EXCEPT !.state = "END"]),
                           EVENT_INIT("STREAM_END", token.start_mark,
                                      token.end_mark))
        skipped(p0) == IF ~Failed(p0) /\ ~implicit THEN ends(p0) ELSE p0
    IN start(skipped(PEEK_TOKEN(p)))

\* A variant of yaml_parser_parse_document_end that leaves the state as it
\* is: the parser stays at the end of the document.
yaml_parser_parse_document_end_stuck(p) ==
    LET p1 == PEEK_TOKEN(p)
        token == Head(p1.tokens)
    IN IF Failed(p1) THEN Parsed(p1, NO_EVENT)
       ELSE Parsed(p1, [EVENT_INIT("DOCUMENT_END", token.start_mark,
                                   token.start_mark)
                           EXCEPT !.implicit = TRUE])

\* A variant of yaml_parser_parse_document_end that keeps the tag directives
\* of the document.
yaml_parser_parse_document_end_kept(p) ==
    LET p1 == PEEK_TOKEN(p)
        token == Head(p1.tokens)
        explicit == token.type = "DOCUMENT_END"
        p2 == IF explicit THEN SKIP_TOKEN(p1) ELSE p1
    IN IF Failed(p1) THEN Parsed(p1, NO_EVENT)
       ELSE Parsed([p2 EXCEPT !.state = "DOCUMENT_START"],
                   [EVENT_INIT("DOCUMENT_END", token.start_mark,
                               IF explicit THEN token.end_mark
                               ELSE token.start_mark)
                       EXCEPT !.implicit = ~explicit])

yaml_parser_parse_document_end(p) ==
    LET p1 == PEEK_TOKEN(p)
        token == Head(p1.tokens)
        explicit == token.type = "DOCUMENT_END"
        p2 == IF explicit THEN SKIP_TOKEN(p1) ELSE p1
    IN IF Failed(p1) THEN Parsed(p1, NO_EVENT)
       ELSE Parsed([p2 EXCEPT !.tag_directives = <<>>,
                              !.state = "DOCUMENT_START"],
                   [EVENT_INIT("DOCUMENT_END", token.start_mark,
                               IF explicit THEN token.end_mark
                               ELSE token.start_mark)
                       EXCEPT !.implicit = ~explicit])

yaml_parser_parse_node(p, block, indentless_sequence) ==
    LET \* properties ::= TAG ANCHOR? | ANCHOR TAG?
        Properties(q, anchor, tag_handle, tag_suffix, start_mark, end_mark,
                   tag_mark) ==
            [p |-> q, anchor |-> anchor, tag_handle |-> tag_handle,
             tag_suffix |-> tag_suffix, start_mark |-> start_mark,
             end_mark |-> end_mark, tag_mark |-> tag_mark]
        \* p0 is at the first token of the node, a1 past that token
        properties(p0, a1) ==
            LET first == Head(p0.tokens)
                second == Head(a1.tokens)
            IN IF first.type = "ANCHOR"
               THEN IF ~Failed(a1) /\ second.type = "TAG"
                    THEN Properties(PEEK_TOKEN(SKIP_TOKEN(a1)), first.value,
                                    second.handle, second.value,
                                    first.start_mark, second.end_mark,
                                    second.start_mark)
                    ELSE Properties(a1, first.value, NULL, NULL,
                                    first.start_mark, first.end_mark, Mark0)
               ELSE IF first.type = "TAG"
               THEN IF ~Failed(a1) /\ second.type = "ANCHOR"
                    THEN Properties(PEEK_TOKEN(SKIP_TOKEN(a1)), second.value,
                                    first.handle, first.value,
                                    first.start_mark, second.end_mark,
                                    first.start_mark)
                    ELSE Properties(a1, NULL, first.handle, first.value,
                                    first.start_mark, first.end_mark,
                                    first.start_mark)
               ELSE Properties(p0, NULL, NULL, NULL, first.start_mark,
                               first.start_mark, Mark0)
        \* the content of the node, q being past its properties
        content(q, anchor, tag, start_mark, end_mark) ==
            LET token == Head(q.tokens)
                implicit == tag = NULL \/ tag = <<>>
                Collection(type, style, state) ==
                    IF ~STACK_LIMIT(q.indents,
                                    MAX_NESTING_LEVEL - q.flow_level)
                    THEN Parsed(yaml_maximum_level_reached(q, start_mark,
                                    token.start_mark),
                                NO_EVENT)
                    ELSE Parsed([q EXCEPT !.state = state],
                                [EVENT_INIT(type, start_mark, token.end_mark)
                                    EXCEPT !.anchor = anchor, !.tag = tag,
                                           !.implicit = implicit,
                                           !.style = style])
                plain_implicit == (token.style = "PLAIN" /\ tag = NULL)
                                  \/ (tag # NULL /\ tag = <<"!">>)
            IN IF indentless_sequence /\ token.type = "BLOCK_ENTRY"
               THEN Parsed([q EXCEPT !.state = "INDENTLESS_SEQUENCE_ENTRY"],
                           [EVENT_INIT("SEQUENCE_START", start_mark,
                                       token.end_mark)
                               EXCEPT !.anchor = anchor, !.tag = tag,
                                      !.implicit = implicit,
                                      !.style = "BLOCK"])
               ELSE IF token.type = "SCALAR"
               THEN Parsed(SKIP_TOKEN([q EXCEPT !.state = Top(q.states),
                                                !.states = Pop(@)]),
                           SCALAR_EVENT_INIT(anchor, tag, token.value,
                               plain_implicit, ~plain_implicit /\ tag = NULL,
                               token.style, start_mark, token.end_mark))
               ELSE IF token.type = "FLOW_SEQUENCE_START"
               THEN Collection("SEQUENCE_START", "FLOW",
                               "FLOW_SEQUENCE_FIRST_ENTRY")
               ELSE IF token.type = "FLOW_MAPPING_START"
               THEN Collection("MAPPING_START", "FLOW",
                               "FLOW_MAPPING_FIRST_KEY")
               ELSE IF block /\ token.type = "BLOCK_SEQUENCE_START"
               THEN Collection("SEQUENCE_START", "BLOCK",
                               "BLOCK_SEQUENCE_FIRST_ENTRY")
               ELSE IF block /\ token.type = "BLOCK_MAPPING_START"
               THEN Collection("MAPPING_START", "BLOCK",
                               "BLOCK_MAPPING_FIRST_KEY")
               ELSE IF anchor # NULL \/ tag # NULL
               THEN Parsed([q EXCEPT !.state = Top(q.states),
                                     !.states = Pop(@)],
                           SCALAR_EVENT_INIT(anchor, tag, <<>>, implicit,
                               FALSE, "PLAIN", start_mark, end_mark))
               ELSE Parsed(yaml_parser_set_parser_error_context(q,
                               IF block THEN "while parsing a block node"
                               ELSE "while parsing a flow node",
                               start_mark,
                               "did not find expected node content",
                               token.start_mark),
                           NO_EVENT)
        \* the tag handle of the properties is resolved
        tagged(props) ==
            LET q == props.p
                directives ==
                    {i \in 1..Len(q.tag_directives) :
                        q.tag_directives[i].handle = props.tag_handle}
                tag_directive ==
                    q.tag_directives[CHOOSE i \in directives :
                                         \A j \in directives : i <= j]
            IN IF Failed(q) THEN Parsed(q, NO_EVENT)
               ELSE IF props.tag_handle = NULL
               THEN content(q, props.anchor, NULL, props.start_mark,
                            props.end_mark)
               ELSE IF props.tag_handle = <<>>
               THEN content(q, props.anchor, props.tag_suffix,
                            props.start_mark, props.end_mark)
               ELSE IF directives = {}
               THEN Parsed(yaml_parser_set_parser_error_context(q,
                               "while parsing a node", props.start_mark,
                               "found undefined tag handle", props.tag_mark),
                           NO_EVENT)
               ELSE content(q, props.anchor,
                            tag_directive.prefix \o props.tag_suffix,
                            props.start_mark, props.end_mark)
        node(p0) ==
            LET first == Head(p0.tokens)
            IN IF Failed(p0) THEN Parsed(p0, NO_EVENT)
               ELSE IF first.type = "ALIAS"
               THEN Parsed(SKIP_TOKEN([p0 EXCEPT !.state = Top(p0.states),
                                                 !.states = Pop(@)]),
                           [EVENT_INIT("ALIAS", first.start_mark,
                                       first.end_mark)
                               EXCEPT !.anchor = first.value])
               ELSE tagged(properties(p0, PEEK_TOKEN(SKIP_TOKEN(p0))))
    IN node(PEEK_TOKEN(p))

\* The first entry of a collection: the mark of the token that opens the
\* collection is pushed and the token skipped.
First(p, first) ==
    IF first
    THEN PEEK_TOKEN(SKIP_TOKEN(
             [PEEK_TOKEN(p) EXCEPT
                 !.marks = PUSH(@, Head(PEEK_TOKEN(p).tokens).start_mark)]))
    ELSE PEEK_TOKEN(p)

\* The entry of a block collection after its indicator (a BLOCK-ENTRY, KEY
\* or VALUE token): a node, or an empty scalar before one of the tokens
\* in stop.
Entry(p, stop, state, indentless_sequence) ==
    LET mark == Head(p.tokens).end_mark
        p1 == PEEK_TOKEN(SKIP_TOKEN(p))
    IN IF Failed(p1) THEN Parsed(p1, NO_EVENT)
       ELSE IF Head(p1.tokens).type \notin stop
       THEN Invoke("yaml_parser_parse_node",
                   <<[p1 EXCEPT !.states = PUSH(@, state)],
                     TRUE, indentless_sequence>>)
       ELSE yaml_parser_process_empty_scalar([p1 EXCEPT !.state = state], mark)

\* A variant of End that ends a mapping as a sequence and a sequence as a
\* mapping: the nesting of the events depends on the type of the End event.
End_swapped(p, type) ==
    LET token == Head(p.tokens)
    IN Parsed(SKIP_TOKEN([p EXCEPT !.state = Top(p.states),
                                   !.states = Pop(@), !.marks = Pop(@)]),
              EVENT_INIT(IF type = "MAPPING_END" THEN "SEQUENCE_END"
                         ELSE "MAPPING_END",
                         token.start_mark, token.end_mark))

\* The end of a collection: the state and the mark are popped.
End(p, type) ==
    LET token == Head(p.tokens)
    IN Parsed(SKIP_TOKEN([p EXCEPT !.state = Top(p.states),
                                   !.states = Pop(@), !.marks = Pop(@)]),
              EVENT_INIT(type, token.start_mark, token.end_mark))

Unexpected(p, context, problem) ==
    Parsed(yaml_parser_set_parser_error_context(
               [p EXCEPT !.marks = Pop(@)], context, Top(p.marks), problem,
               Head(p.tokens).start_mark),
           NO_EVENT)

yaml_parser_parse_block_sequence_entry(p, first) ==
    LET p1 == First(p, first)
        token == Head(p1.tokens)
    IN IF Failed(p1) THEN Parsed(p1, NO_EVENT)
       ELSE IF token.type = "BLOCK_ENTRY"
       THEN Entry(p1, {"BLOCK_ENTRY", "BLOCK_END"}, "BLOCK_SEQUENCE_ENTRY",
                  FALSE)
       ELSE IF token.type = "BLOCK_END" THEN End(p1, "SEQUENCE_END")
       ELSE Unexpected(p1, "while parsing a block collection",
                       "did not find expected '-' indicator")

yaml_parser_parse_indentless_sequence_entry(p) ==
    LET p1 == PEEK_TOKEN(p)
        token == Head(p1.tokens)
    IN IF Failed(p1) THEN Parsed(p1, NO_EVENT)
       ELSE IF token.type = "BLOCK_ENTRY"
       THEN Entry(p1, {"BLOCK_ENTRY", "KEY", "VALUE", "BLOCK_END"},
                  "INDENTLESS_SEQUENCE_ENTRY", FALSE)
       ELSE Parsed([p1 EXCEPT !.state = Top(p1.states), !.states = Pop(@)],
                   EVENT_INIT("SEQUENCE_END", token.start_mark,
                              token.start_mark))

yaml_parser_parse_block_mapping_key(p, first) ==
    LET p1 == First(p, first)
        token == Head(p1.tokens)
    IN IF Failed(p1) THEN Parsed(p1, NO_EVENT)
       ELSE IF token.type = "KEY"
       THEN Entry(p1, {"KEY", "VALUE", "BLOCK_END"}, "BLOCK_MAPPING_VALUE",
                  TRUE)
       ELSE IF token.type = "BLOCK_END" THEN End(p1, "MAPPING_END")
       ELSE Unexpected(p1, "while parsing a block mapping",
                       "did not find expected key")

yaml_parser_parse_block_mapping_value(p) ==
    LET p1 == PEEK_TOKEN(p)
        token == Head(p1.tokens)
    IN IF Failed(p1) THEN Parsed(p1, NO_EVENT)
       ELSE IF token.type = "VALUE"
       THEN Entry(p1, {"KEY", "VALUE", "BLOCK_END"}, "BLOCK_MAPPING_KEY", TRUE)
       ELSE yaml_parser_process_empty_scalar(
                [p1 EXCEPT !.state = "BLOCK_MAPPING_KEY"], token.start_mark)

\* The entry of a flow collection: after the first entry a FLOW-ENTRY token
\* is expected unless the collection ends.
FlowEntry(p, first, end, context, problem) ==
    LET p1 == First(p, first)
        token == Head(p1.tokens)
    IN IF Failed(p1) THEN Parsed(p1, NO_EVENT)
       ELSE IF token.type # end /\ ~first
       THEN IF token.type = "FLOW_ENTRY"
            THEN Parsed(PEEK_TOKEN(SKIP_TOKEN(p1)), NO_EVENT)
            ELSE Unexpected(p1, context, problem)
       ELSE Parsed(p1, NO_EVENT)

yaml_parser_parse_flow_sequence_entry(p, first) ==
    LET p1 == FlowEntry(p, first, "FLOW_SEQUENCE_END",
                        "while parsing a flow sequence",
                        "did not find expected ',' or ']'").p
        token == Head(p1.tokens)
    IN IF Failed(p1) THEN Parsed(p1, NO_EVENT)
       ELSE IF token.type = "KEY"
       THEN Parsed(SKIP_TOKEN(
                       [p1 EXCEPT !.state = "FLOW_SEQUENCE_ENTRY_MAPPING_KEY"]),
                   [EVENT_INIT("MAPPING_START", token.start_mark,
                               token.end_mark)
                       EXCEPT !.implicit = TRUE, !.style = "FLOW"])
       ELSE IF token.type # "FLOW_SEQUENCE_END"
       THEN Invoke("yaml_parser_parse_node",
                   <<[p1 EXCEPT !.states = PUSH(@, "FLOW_SEQUENCE_ENTRY")],
                     FALSE, FALSE>>)
       ELSE End(p1, "SEQUENCE_END")

yaml_parser_parse_flow_sequence_entry_mapping_key(p) ==
    LET p1 == PEEK_TOKEN(p)
        token == Head(p1.tokens)
        state == "FLOW_SEQUENCE_ENTRY_MAPPING_VALUE"
    IN IF Failed(p1) THEN Parsed(p1, NO_EVENT)
       ELSE IF token.type \notin {"VALUE", "FLOW_ENTRY", "FLOW_SEQUENCE_END"}
       THEN Invoke("yaml_parser_parse_node",
                   <<[p1 EXCEPT !.states = PUSH(@, state)],
                     FALSE, FALSE>>)
       ELSE IF token.type = "FLOW_SEQUENCE_END"
       THEN yaml_parser_process_empty_scalar([p1 EXCEPT !.state = state],
                                             token.start_mark)
       ELSE yaml_parser_process_empty_scalar(
                [SKIP_TOKEN(p1) EXCEPT !.state = state], token.end_mark)

\* The value of a flow mapping entry: a node after a VALUE token, or an empty
\* scalar before one of the tokens in stop.
FlowValue(p, stop, pushed, state) ==
    LET p1 == PEEK_TOKEN(p)
        p2 == PEEK_TOKEN(SKIP_TOKEN(p1))
        token == Head(p1.tokens)
        p3 == IF token.type = "VALUE" THEN p2 ELSE p1
    IN IF Failed(p1) THEN Parsed(p1, NO_EVENT)
       ELSE IF Failed(p3) THEN Parsed(p3, NO_EVENT)
       ELSE IF token.type = "VALUE" /\ Head(p3.tokens).type \notin stop
       THEN Invoke("yaml_parser_parse_node",
                   <<[p3 EXCEPT !.states = PUSH(@, pushed)],
                     FALSE, FALSE>>)
       ELSE yaml_parser_process_empty_scalar([p3 EXCEPT !.state = state],
                                             Head(p3.tokens).start_mark)

yaml_parser_parse_flow_sequence_entry_mapping_value(p) ==
    FlowValue(p, {"FLOW_ENTRY", "FLOW_SEQUENCE_END"},
              "FLOW_SEQUENCE_ENTRY_MAPPING_END",
              "FLOW_SEQUENCE_ENTRY_MAPPING_END")

yaml_parser_parse_flow_sequence_entry_mapping_end(p) ==
    LET p1 == PEEK_TOKEN(p)
        token == Head(p1.tokens)
    IN IF Failed(p1) THEN Parsed(p1, NO_EVENT)
       ELSE Parsed([p1 EXCEPT !.state = "FLOW_SEQUENCE_ENTRY"],
                   EVENT_INIT("MAPPING_END", token.start_mark,
                              token.start_mark))

yaml_parser_parse_flow_mapping_key(p, first) ==
    LET p1 == FlowEntry(p, first, "FLOW_MAPPING_END",
                        "while parsing a flow mapping",
                        "did not find expected ',' or '}'").p
        token == Head(p1.tokens)
        p2 == PEEK_TOKEN(SKIP_TOKEN(p1))
    IN IF Failed(p1) THEN Parsed(p1, NO_EVENT)
       ELSE IF token.type = "KEY"
       THEN IF Failed(p2) THEN Parsed(p2, NO_EVENT)
            ELSE IF Head(p2.tokens).type \notin
                        {"VALUE", "FLOW_ENTRY", "FLOW_MAPPING_END"}
            THEN Invoke("yaml_parser_parse_node",
                   <<[p2 EXCEPT !.states = PUSH(@, "FLOW_MAPPING_VALUE")],
                     FALSE, FALSE>>)
            ELSE yaml_parser_process_empty_scalar(
                     [p2 EXCEPT !.state = "FLOW_MAPPING_VALUE"],
                     Head(p2.tokens).start_mark)
       ELSE IF token.type # "FLOW_MAPPING_END"
       THEN Invoke("yaml_parser_parse_node",
                   <<[p1 EXCEPT !.states = PUSH(@, "FLOW_MAPPING_EMPTY_VALUE")],
                     FALSE, FALSE>>)
       ELSE End(p1, "MAPPING_END")

yaml_parser_parse_flow_mapping_value(p, empty) ==
    LET p1 == PEEK_TOKEN(p)
    IN IF Failed(p1) THEN Parsed(p1, NO_EVENT)
       ELSE IF empty
       THEN yaml_parser_process_empty_scalar(
                [p1 EXCEPT !.state = "FLOW_MAPPING_KEY"],
                Head(p1.tokens).start_mark)
       ELSE FlowValue(p1, {"FLOW_ENTRY", "FLOW_MAPPING_END"},
                      "FLOW_MAPPING_KEY", "FLOW_MAPPING_KEY")

yaml_parser_parse_document_content(p) ==
    LET p1 == PEEK_TOKEN(p)
        token == Head(p1.tokens)
    IN IF Failed(p1) THEN Parsed(p1, NO_EVENT)
       ELSE IF token.type \in {"VERSION_DIRECTIVE", "TAG_DIRECTIVE",
                "DOCUMENT_START", "DOCUMENT_END", "STREAM_END"}
       THEN yaml_parser_process_empty_scalar(
                [p1 EXCEPT !.state = Top(p1.states), !.states = Pop(@)],
                token.start_mark)
       ELSE Invoke("yaml_parser_parse_node",
                   <<p1,
                     TRUE, FALSE>>)

(***************************************************************************)
(* State dispatcher.                                                       *)
(***************************************************************************)
yaml_parser_state_machine(p) ==
    CASE p.state = "STREAM_START" -> yaml_parser_parse_stream_start(p)
      [] p.state \in {"IMPLICIT_DOCUMENT_START", "DOCUMENT_START"} ->
             yaml_parser_parse_document_start(
                 p, p.state = "IMPLICIT_DOCUMENT_START")
      [] p.state = "DOCUMENT_CONTENT" -> yaml_parser_parse_document_content(p)
      [] p.state = "DOCUMENT_END" -> yaml_parser_parse_document_end(p)
      [] p.state \in {"BLOCK_NODE", "BLOCK_NODE_OR_INDENTLESS_SEQUENCE",
                      "FLOW_NODE"} ->
             Invoke("yaml_parser_parse_node",
                    <<p, p.state # "FLOW_NODE",
                      p.state = "BLOCK_NODE_OR_INDENTLESS_SEQUENCE">>)
      [] p.state \in {"BLOCK_SEQUENCE_FIRST_ENTRY", "BLOCK_SEQUENCE_ENTRY"} ->
             yaml_parser_parse_block_sequence_entry(
                 p, p.state = "BLOCK_SEQUENCE_FIRST_ENTRY")
      [] p.state = "INDENTLESS_SEQUENCE_ENTRY" ->
             yaml_parser_parse_indentless_sequence_entry(p)
      [] p.state \in {"BLOCK_MAPPING_FIRST_KEY", "BLOCK_MAPPING_KEY"} ->
             yaml_parser_parse_block_mapping_key(
                 p, p.state = "BLOCK_MAPPING_FIRST_KEY")
      [] p.state = "BLOCK_MAPPING_VALUE" ->
             yaml_parser_parse_block_mapping_value(p)
      [] p.state \in {"FLOW_SEQUENCE_FIRST_ENTRY", "FLOW_SEQUENCE_ENTRY"} ->
             yaml_parser_parse_flow_sequence_entry(
                 p, p.state = "FLOW_SEQUENCE_FIRST_ENTRY")
      [] p.state = "FLOW_SEQUENCE_ENTRY_MAPPING_KEY" ->
             yaml_parser_parse_flow_sequence_entry_mapping_key(p)
      [] p.state = "FLOW_SEQUENCE_ENTRY_MAPPING_VALUE" ->
             yaml_parser_parse_flow_sequence_entry_mapping_value(p)
      [] p.state = "FLOW_SEQUENCE_ENTRY_MAPPING_END" ->
             yaml_parser_parse_flow_sequence_entry_mapping_end(p)
      [] p.state \in {"FLOW_MAPPING_FIRST_KEY", "FLOW_MAPPING_KEY"} ->
             yaml_parser_parse_flow_mapping_key(
                 p, p.state = "FLOW_MAPPING_FIRST_KEY")
      [] p.state \in {"FLOW_MAPPING_VALUE", "FLOW_MAPPING_EMPTY_VALUE"} ->
             yaml_parser_parse_flow_mapping_value(
                 p, p.state = "FLOW_MAPPING_EMPTY_VALUE")
      [] OTHER -> Parsed(p, NO_EVENT)

(***************************************************************************)
(* The public entry points of the parser, as functions of the parser       *)
(* structure: the result is the value the C function returns.              *)
(***************************************************************************)
\* A variant of yaml_parser_scan that does not record the end of the stream.
yaml_parser_scan_on(p) ==
    LET p1 == PEEK_TOKEN(p)
        token == Head(p1.tokens)
    IN IF p.stream_end_produced \/ Failed(p)
       THEN [p |-> p, token |-> NO_TOKEN, result |-> 1]
       ELSE IF Failed(p1) THEN [p |-> p1, token |-> NO_TOKEN, result |-> 0]
       ELSE [p |-> [p1 EXCEPT !.tokens = Tail(@),
                              !.token_available = FALSE,
                              !.tokens_parsed = @ + 1],
             token |-> token, result |-> 1]

yaml_parser_scan(p) ==
    LET p1 == PEEK_TOKEN(p)
        token == Head(p1.tokens)
    IN IF p.stream_end_produced \/ Failed(p)
       THEN [p |-> p, token |-> NO_TOKEN, result |-> 1]
       ELSE IF Failed(p1) THEN [p |-> p1, token |-> NO_TOKEN, result |-> 0]
       ELSE [p |-> [p1 EXCEPT !.tokens = Tail(@),
                              !.token_available = FALSE,
                              !.tokens_parsed = @ + 1,
                              !.stream_end_produced =
                                  (@ \/ token.type = "STREAM_END")],
             token |-> token, result |-> 1]

\* A variant of yaml_parser_parse that does not return the failure of the
\* state machine.
yaml_parser_parse_unreported(p) ==
    IF p.stream_end_produced \/ Failed(p) \/ p.state = "END"
    THEN [p |-> p, event |-> NO_EVENT, result |-> 1]
    ELSE [yaml_parser_state_machine(p) EXCEPT !.result = 1]

yaml_parser_parse(p) ==
    IF p.stream_end_produced \/ Failed(p) \/ p.state = "END"
    THEN [p |-> p, event |-> NO_EVENT, result |-> 1]
    ELSE yaml_parser_state_machine(p)

(***************************************************************************)
(* The loader: events in, a document (an arena of nodes) out.              *)
(***************************************************************************)
NODE_INIT(type, tag, start_mark, end_mark) ==
    [type |-> type, tag |-> tag, start_mark |-> start_mark,
     end_mark |-> end_mark, value |-> <<>>, style |-> "ANY", items |-> <<>>,
     pairs |-> <<>>]

NO_DOCUMENT ==
    [nodes |-> <<>>, version_directive |-> <<>>, tag_directives |-> <<>>,
     start_implicit |-> FALSE, end_implicit |-> FALSE, start_mark |-> Mark0,
     end_mark |-> Mark0]

YAML_DEFAULT_TAG(type) ==
    <<"t", "a", "g", ":", "y", "a", "m", "l", ".", "o", "r", "g", ",",
      "2", "0", "0", "2", ":">>
    \o (CASE type = "SCALAR" -> <<"s", "t", "r">>
          [] type = "SEQUENCE" -> <<"s", "e", "q">>
          [] type = "MAPPING" -> <<"m", "a", "p">>)

yaml_parser_set_composer_error(p, problem, problem_mark) ==
    [p EXCEPT !.error = "COMPOSER", !.problem = problem,
              !.problem_mark = problem_mark]

yaml_parser_set_composer_error_context(p, context, context_mark, problem, problem_mark) ==
    [p EXCEPT !.error = "COMPOSER", !.context = context,
              !.context_mark = context_mark, !.problem = problem,
              !.problem_mark = problem_mark]

\* A variant of yaml_parser_delete_aliases that deletes nothing.
yaml_parser_keep_aliases(p) == p

yaml_parser_delete_aliases(p) == [p EXCEPT !.aliases = <<>>]

\* A variant of yaml_parser_register_anchor without the search for the
\* anchor among those registered.
yaml_parser_register_anchor_unchecked(p, index, anchor) ==
    LET data == [anchor |-> anchor, index |-> index,
                 mark |-> p.document.nodes[index].start_mark]
    IN IF anchor = NULL THEN p
       ELSE [p EXCEPT !.aliases = PUSH(@, data)]

yaml_parser_register_anchor(p, index, anchor) ==
    LET data == [anchor |-> anchor, index |-> index,
                 mark |-> p.document.nodes[index].start_mark]
        found == {i \in 1..Len(p.aliases) : p.aliases[i].anchor = anchor}
        alias_data == p.aliases[CHOOSE i \in found : \A j \in found : i <= j]
    IN IF anchor = NULL THEN p
       ELSE IF found # {}
       THEN yaml_parser_set_composer_error_context(p,
                "found duplicate anchor; first occurrence", alias_data.mark,
                "second occurrence", data.mark)
       ELSE [p EXCEPT !.aliases = PUSH(@, data)]

\* A variant of yaml_parser_load_node_add that opens a new pair for every
\* child of a mapping.
yaml_parser_load_node_add_key(p, ctx, index) ==
    IF ctx = <<>> THEN p
    ELSE IF p.document.nodes[Top(ctx)].type = "SEQUENCE"
    THEN [p EXCEPT !.document.nodes[Top(ctx)].items = PUSH(@, index)]
    ELSE [p EXCEPT !.document.nodes[Top(ctx)].pairs =
                       PUSH(@, [key |-> index, value |-> 0])]

yaml_parser_load_node_add(p, ctx, index) ==
    LET parent_index == Top(ctx)
        parent == p.document.nodes[parent_index]
        pairs == parent.pairs
    IN IF ctx = <<>> THEN p
       ELSE IF parent.type = "SEQUENCE"
       THEN [p EXCEPT !.document.nodes[parent_index].items = PUSH(@, index)]
       ELSE IF pairs # <<>> /\ Top(pairs).key # 0 /\ Top(pairs).value = 0
       THEN [p EXCEPT
                !.document.nodes[parent_index].pairs[Len(pairs)].value = index]
       ELSE [p EXCEPT !.document.nodes[parent_index].pairs =
                          PUSH(@, [key |-> index, value |-> 0])]

\* A variant of yaml_parser_load_alias that adds a copy of the anchored node
\* to the document.
yaml_parser_load_alias_copy(p, event, ctx) ==
    LET found == {i \in 1..Len(p.aliases) : p.aliases[i].anchor = event.anchor}
        alias_data == p.aliases[CHOOSE i \in found : \A j \in found : i <= j]
        p1 == [p EXCEPT !.document.nodes =
                            PUSH(@, p.document.nodes[alias_data.index])]
    IN IF found # {}
       THEN yaml_parser_load_node_add(p1, ctx, Len(p1.document.nodes))
       ELSE yaml_parser_set_composer_error(p, "found undefined alias",
                                           event.start_mark)

yaml_parser_load_alias(p, event, ctx) ==
    LET found == {i \in 1..Len(p.aliases) : p.aliases[i].anchor = event.anchor}
        alias_data == p.aliases[CHOOSE i \in found : \A j \in found : i <= j]
    IN IF found # {}
       THEN yaml_parser_load_node_add(p, ctx, alias_data.index)
       ELSE yaml_parser_set_composer_error(p, "found undefined alias",
                                           event.start_mark)

\* yaml_parser_load_scalar, yaml_parser_load_sequence and
\* yaml_parser_load_mapping: the node is pushed on the arena, its anchor
\* registered and the node added to its parent; a collection then becomes
\* the current parent.
yaml_parser_load_node(p, event, ctx, type) ==
    LET tag == IF event.tag = NULL \/ event.tag = <<"!">>
               THEN YAML_DEFAULT_TAG(type) ELSE event.tag
        node == [NODE_INIT(type, tag, event.start_mark, event.end_mark)
                    EXCEPT !.value = event.value, !.style = event.style]
        p1 == [p EXCEPT !.document.nodes = PUSH(@, node)]
        index == Len(p1.document.nodes)
        p2 == yaml_parser_register_anchor(p1, index, event.anchor)
        p3 == yaml_parser_load_node_add(p2, ctx, index)
    IN IF Failed(p2) THEN [p |-> p2, ctx |-> ctx]
       ELSE [p |-> p3, ctx |-> IF type = "SCALAR" THEN ctx
                               ELSE PUSH(ctx, index)]

\* What a step inside a call yields besides the return values 0 and 1:
\* the end of the process at a failed assertion, and another iteration.
ABORT == -1

AGAIN == 2

\* One iteration of the loop of yaml_parser_load_nodes.  ndebug tells whether
\* the build drops the assertions.
yaml_parser_load_nodes(p, c, ndebug) ==
    LET r == Invoke("yaml_parser_parse", <<p>>)
        event == r.event
        Return(q, d, result) ==
            [p |-> q, ctx |-> d, result |-> result, event |-> event]
        n == yaml_parser_load_node(r.p, event, c,
                 CASE event.type = "SCALAR" -> "SCALAR"
                   [] event.type = "SEQUENCE_START" -> "SEQUENCE"
                   [] OTHER -> "MAPPING")
        a == yaml_parser_load_alias(r.p, event, c)
        \* yaml_parser_load_sequence_end, yaml_parser_load_mapping_end
        index == Top(c)
        expected == IF event.type = "SEQUENCE_END" THEN "SEQUENCE"
                    ELSE "MAPPING"
    IN IF r.result = 0 THEN Return(r.p, c, 0)
       ELSE IF event.type = "ALIAS"
       THEN Return(a, c, IF Failed(a) THEN 0 ELSE AGAIN)
       ELSE IF event.type \in {"SCALAR", "SEQUENCE_START", "MAPPING_START"}
       THEN Return(n.p, n.ctx, IF Failed(n.p) THEN 0 ELSE AGAIN)
       ELSE IF event.type \in {"SEQUENCE_END", "MAPPING_END"}
       THEN IF ~ndebug /\ (c = <<>>
                           \/ r.p.document.nodes[index].type # expected)
            THEN Return(r.p, c, ABORT)
            ELSE Return([r.p EXCEPT !.document.nodes[index].end_mark =
                                        event.end_mark],
                        Pop(c), AGAIN)
       ELSE IF event.type = "DOCUMENT_END"
       THEN Return([r.p EXCEPT !.document.end_implicit = event.implicit,
                               !.document.end_mark = event.end_mark], c, 1)
       ELSE Return(r.p, c, IF ndebug THEN 0 ELSE ABORT)

\* The head of yaml_parser_load_document, before the nodes are loaded.
yaml_parser_load_document(p, event, ndebug) ==
    IF ~ndebug /\ event.type # "DOCUMENT_START"
    THEN [p |-> p, result |-> ABORT]
    ELSE [p |-> [p EXCEPT
                    !.document.version_directive = event.version_directive,
                    !.document.tag_directives = event.tag_directives,
                    !.document.start_implicit = event.implicit,
                    !.document.start_mark = event.start_mark],
          result |-> AGAIN]

\* yaml_parser_load up to the loop of yaml_parser_load_nodes.
yaml_parser_load(p, ndebug) ==
    LET s == IF ~p.stream_start_produced THEN Invoke("yaml_parser_parse", <<p>>)
             ELSE [p |-> p, event |-> NO_EVENT, result |-> 1]
        r == Invoke("yaml_parser_parse", <<s.p>>)
        d == yaml_parser_load_document(
                 [r.p EXCEPT !.aliases = <<>>, !.document = NO_DOCUMENT],
                 r.event, ndebug)
        Return(q, result, parsed) ==
            [p |-> q, result |-> result,
             events |-> SelectSeq(parsed, LAMBDA e : e.type # "NO")]
    IN IF s.result = 0 THEN Return(s.p, 0, <<>>)
       ELSE IF ~p.stream_start_produced /\ ~ndebug
               /\ s.event.type # "STREAM_START"
       THEN Return(s.p, ABORT, <<s.event>>)
       ELSE IF s.p.stream_end_produced THEN Return(s.p, 1, <<s.event>>)
       ELSE IF r.result = 0 THEN Return(r.p, 0, <<s.event>>)
       ELSE IF r.event.type = "STREAM_END"
       THEN Return(r.p, 1, <<s.event, r.event>>)
       ELSE Return(d.p, d.result, <<s.event, r.event>>)

\* The exits of yaml_parser_load: the aliases are deleted; on an error the
\* document is deleted too.
yaml_parser_load_return(p, result) ==
    [p |-> [yaml_parser_delete_aliases(p) EXCEPT !.document = NO_DOCUMENT],
     document |-> IF result = 1 THEN p.document ELSE NO_DOCUMENT,
     result |-> result]

Invoke(function, args) ==
    CASE function = "yaml_parser_fetch_more_tokens" ->
             yaml_parser_fetch_more_tokens(args[1])
      [] function = "yaml_parser_parse_node" ->
             yaml_parser_parse_node(args[1], args[2], args[3])
      [] function = "yaml_parser_scan" -> yaml_parser_scan(args[1])
      [] function = "yaml_parser_parse" -> yaml_parser_parse(args[1])
      [] function = "yaml_parser_load" -> yaml_parser_load(args[1], args[2])
      [] function = "yaml_parser_load_nodes" ->
             yaml_parser_load_nodes(args[1], args[2], args[3])

(***************************************************************************)
(* The parser after yaml_parser_initialize and                             *)
(* yaml_parser_set_input_string.                                           *)
(***************************************************************************)
yaml_parser_initialize ==
    [error |-> "NO", context |-> "NULL", context_mark |-> Mark0,
     problem |-> "NULL", problem_offset |-> 0, problem_value |-> 0,
     problem_mark |-> Mark0, input |-> <<>>,
     pointer |-> 0, mark |-> Mark0, tokens |-> <<>>, tokens_parsed |-> 0,
     token_available |-> FALSE, simple_keys |-> <<>>,
     simple_key_allowed |-> FALSE, flow_level |-> 0, indent |-> 0,
     indents |-> <<>>, stream_start_produced |-> FALSE,
     stream_end_produced |-> FALSE, state |-> "STREAM_START",
     states |-> <<>>, marks |-> <<>>, tag_directives |-> <<>>,
     aliases |-> <<>>, document |-> NO_DOCUMENT]

yaml_parser_set_input_string(p, input) == [p EXCEPT !.input = input]

(***************************************************************************)
(* The application: one parser over an input string, driven through one of *)
(* its three entry points until the stream ends or a call fails, and       *)
(* beyond.  The inputs are the concatenations of at most MaxPieces pieces  *)
(* of YAML text.                                                           *)
(***************************************************************************)
MaxPieces == 3

Pieces ==
    << <<"-", " ">>, <<"x">>, <<"&", "a", " ">>, <<"*", "a">>, <<":", " ">>,
       <<"?">>, <<"\n">>, <<"[">>, <<"]">>, <<",">>,
       <<"\n", "-", "-", "-", " ">> >>

RECURSIVE Inputs(_, _)
Inputs(pieces, n) ==
    IF n = 0 THEN {<<>>}
    ELSE Inputs(pieces, n - 1)
         \cup {s \o pieces[i] : s \in Inputs(pieces, n - 1),
                                i \in DOMAIN pieces}

NoCall == [op |-> "none", result |-> 1, token |-> NO_TOKEN,
           event |-> NO_EVENT]

Call(op, result, token, event) ==
    [op |-> op, result |-> result, token |-> token, event |-> event]

\* The events delivered: the empty event of a call that delivers nothing is
\* not one of them.
Delivered(old, new) == old \o SelectSeq(new, LAMBDA e : e.type # "NO")

Start(inputs) ==
    /\ MAX_NESTING_LEVEL = 1000
    /\ emitter = NULL
    /\ application = NoApplication
    /\ \E input \in inputs :
           parser = yaml_parser_set_input_string(yaml_parser_initialize, input)
    /\ api \in {"scan", "parse", "load"}
    /\ pc = "idle"
    /\ call = NoCall
    /\ events = <<>>
    /\ loader = <<>>
    /\ document = NO_DOCUMENT

Init == Start(Inputs(Pieces, MaxPieces))

ParserScan ==
    LET returned(r) ==
            /\ parser' = r.p
            /\ call' = Call("scan", r.result, r.token, NO_EVENT)
    IN /\ pc = "idle"
       /\ api = "scan"
       /\ returned(Invoke("yaml_parser_scan", <<parser>>))
       /\ UNCHANGED <<application, emitter, MAX_NESTING_LEVEL, api, pc, events, loader, document>>

ParserParse ==
    LET returned(r) ==
            /\ parser' = r.p
            /\ call' = Call("parse", r.result, NO_TOKEN, r.event)
            /\ events' = Delivered(events, <<r.event>>)
    IN /\ pc = "idle"
       /\ api = "parse"
       /\ returned(Invoke("yaml_parser_parse", <<parser>>))
       /\ UNCHANGED <<application, emitter, MAX_NESTING_LEVEL, api, pc, loader, document>>

\* The end of a call of yaml_parser_load: it returns, or the process ends
\* at a failed assertion.
LoadReturn(p, result, event) ==
    LET returned(r) ==
            /\ parser' = r.p
            /\ pc' = "idle"
            /\ call' = Call("load", r.result, NO_TOKEN, event)
            /\ loader' = <<>>
            /\ document' = r.document
    IN IF result = ABORT
       THEN /\ parser' = p
            /\ pc' = "aborted"
            /\ call' = Call("load", ABORT, NO_TOKEN, event)
            /\ UNCHANGED <<loader, document>>
       ELSE returned(yaml_parser_load_return(p, result))

\* yaml_parser_load up to the first iteration of yaml_parser_load_nodes.
ParserLoad ==
    LET returned(r) ==
            /\ events' = Delivered(events, r.events)
            /\ IF r.result = AGAIN
               THEN /\ parser' = r.p
                    /\ pc' = "load_nodes"
                    /\ call' = Call("load_document", AGAIN, NO_TOKEN, NO_EVENT)
                    /\ loader' = <<>>
                    /\ UNCHANGED document
               ELSE LoadReturn(r.p, r.result, NO_EVENT)
    IN /\ pc = "idle"
       /\ api = "load"
       /\ \E ndebug \in BOOLEAN :
              returned(Invoke("yaml_parser_load", <<parser, ndebug>>))
       /\ UNCHANGED <<application, emitter, MAX_NESTING_LEVEL, api>>

\* One iteration of the loop of yaml_parser_load_nodes, and the return of
\* yaml_parser_load after the last one.
LoadNodes ==
    LET returned(r) ==
            /\ events' = Delivered(events, <<r.event>>)
            /\ IF r.result = AGAIN
               THEN /\ parser' = r.p
                    /\ loader' = r.ctx
                    /\ call' = Call("load_nodes", AGAIN, NO_TOKEN, r.event)
                    /\ UNCHANGED <<pc, document>>
               ELSE LoadReturn(r.p, r.result, r.event)
    IN /\ pc = "load_nodes"
       /\ \E ndebug \in BOOLEAN :
              returned(Invoke("yaml_parser_load_nodes",
                              <<parser, loader, ndebug>>))
       /\ UNCHANGED <<application, emitter, MAX_NESTING_LEVEL, api>>

Next == ParserScan \/ ParserParse \/ ParserLoad \/ LoadNodes

Spec == Init /\ [][Next]_vars

(***************************************************************************)
(* The nesting limit: yaml_set_max_nest_level is called before the parse   *)
(* of an input that nests collections, or is not called at all.            *)
(***************************************************************************)
MaxDepth == 3

MaxLevel == 3

\* The input that nests the collections of the given kinds around a scalar:
\* "-" is a block sequence, "[" a flow sequence, "{" a flow mapping.
RECURSIVE Nest(_)
Nest(kinds) ==
    IF kinds = <<>> THEN <<"x">>
    ELSE CASE Head(kinds) = "-" -> <<"-", " ">> \o Nest(Tail(kinds))
           [] Head(kinds) = "[" -> <<"[">> \o Nest(Tail(kinds)) \o <<"]">>
           [] Head(kinds) = "{" -> <<"{">> \o Nest(Tail(kinds)) \o <<"}">>

\* Block collections do not nest in flow collections.
NestKinds(depth) ==
    {kinds \in UNION {[1..n -> {"-", "[", "{"}] : n \in 0..depth} :
        \A i, j \in DOMAIN kinds : i < j /\ kinds[j] = "-" => kinds[i] = "-"}

\* An indentless sequence in a block mapping, and a single-pair mapping in
\* a flow sequence.
NestSpecial ==
    { <<"x", ":", "\n", "-", " ", "x">>, <<"[", "x", ":", " ", "x", "]">> }

InitNest ==
    Start({Nest(kinds) : kinds \in NestKinds(MaxDepth)} \cup NestSpecial)
    /\ api = "parse"

yaml_set_max_nest_level(max) ==
    /\ call = NoCall
    /\ MAX_NESTING_LEVEL' = max
    /\ UNCHANGED <<parser, api, pc, call, events, loader, document, emitter,
                   application>>

SetMaxNestLevel == \E max \in 0..MaxLevel : yaml_set_max_nest_level(max)

NextNest == SetMaxNestLevel \/ ParserParse

SpecNest == InitNest /\ [][NextNest]_vars

(***************************************************************************)
(* Tag resolution: the same parser over inputs made of %TAG directives,    *)
(* document start markers and tagged nodes.                                *)
(***************************************************************************)
MaxTagPieces == 3

TagPieces ==
    << <<"%", "T", "A", "G", " ", "!", " ", "p", "\n">>,
       <<"%", "T", "A", "G", " ", "!", "e", "!", " ", "q", "\n">>,
       <<"%", "T", "A", "G", " ", "!", "e", "!", " ", "r", "\n">>,
       <<"-", "-", "-", " ">>,
       <<"!", "s", " ">>,
       <<"!", "e", "!", "s", " ">>,
       <<"!", "!", "s", " ">>,
       <<"x">> >>

InitTag == Start(Inputs(TagPieces, MaxTagPieces))

SpecTag == InitTag /\ [][Next]_vars

(***************************************************************************)
(* The scanner step by step: a call of yaml_parser_scan is the check at    *)
(* its head, the iterations of the loop of yaml_parser_fetch_more_tokens,  *)
(* and the removal of the head of the tokens queue.  The inputs are short  *)
(* texts of block and flow collections, and keys whose ':' follows a long  *)
(* run of spaces.                                                          *)
(***************************************************************************)
\* One iteration of the loop of yaml_parser_fetch_more_tokens: AGAIN after a
\* token has been fetched, 1 when the queue holds a token that may be taken.
yaml_parser_fetch_more_tokens_iteration(p) ==
    LET p1 == IF p.tokens = <<>> THEN p ELSE yaml_parser_stale_simple_keys(p)
        need_more_tokens ==
            \/ p.tokens = <<>>
            \/ \E i \in 1..Len(p1.simple_keys) :
                   /\ p1.simple_keys[i].possible
                   /\ p1.simple_keys[i].token_number = p1.tokens_parsed
        fetched(p2) == [p |-> p2, result |-> IF Failed(p2) THEN 0 ELSE AGAIN]
    IN IF Failed(p1) THEN [p |-> p1, result |-> 0]
       ELSE IF ~need_more_tokens
       THEN [p |-> [p1 EXCEPT !.token_available = TRUE], result |-> 1]
       ELSE fetched(yaml_parser_fetch_next_token(p1))

MaxFetchPieces == 4

FetchPieces ==
    << <<"-", " ">>, <<"x">>, <<":", " ">>, <<"\n">>, <<" ">>, <<"[">>,
       <<"]">> >>

MaxGap == 1022

\* A double-quoted key, a run of spaces and the ':', alone or as the second
\* key of a block mapping.
LongKeys ==
    {first \o key \o [i \in 1..gap |-> " "] \o <<":", " ">> :
        first \in {<<>>, <<"x", ":", " ", "\n">>},
        key \in {<<"\"", "a", "\"">>, <<"\"", "xC3", "xA9", "\"">>},
        gap \in (MaxGap - 2)..MaxGap}

InitFetch ==
    /\ MAX_NESTING_LEVEL = 1000
    /\ emitter = NULL
    /\ application = NoApplication
    /\ \E input \in Inputs(FetchPieces, MaxFetchPieces) \cup LongKeys :
           parser = yaml_parser_set_input_string(yaml_parser_initialize, input)
    /\ api = "scan"
    /\ pc = "idle"
    /\ call = NoCall
    /\ events = <<>>
    /\ loader = <<>>
    /\ document = NO_DOCUMENT

\* The head of yaml_parser_scan.
ScanBegin ==
    /\ pc = "idle"
    /\ IF parser.stream_end_produced \/ Failed(parser)
       THEN /\ call' = Call("scan", 1, NO_TOKEN, NO_EVENT)
            /\ UNCHANGED pc
       ELSE /\ call' = Call("scan", AGAIN, NO_TOKEN, NO_EVENT)
            /\ pc' = IF parser.token_available THEN "dequeue"
                     ELSE "fetch_more_tokens"
    /\ UNCHANGED <<application, emitter, MAX_NESTING_LEVEL, parser, api, events, loader, document>>

\* One iteration of the loop of yaml_parser_fetch_more_tokens.
FetchMoreTokens ==
    LET returned(r) ==
            /\ parser' = r.p
            /\ pc' = CASE r.result = AGAIN -> "fetch_more_tokens"
                       [] r.result = 1 -> "dequeue"
                       [] OTHER -> "idle"
            /\ call' = Call(IF r.result = 0 THEN "scan"
                            ELSE "fetch_more_tokens",
                            r.result, NO_TOKEN, NO_EVENT)
    IN /\ pc = "fetch_more_tokens"
       /\ returned(yaml_parser_fetch_more_tokens_iteration(parser))
       /\ UNCHANGED <<application, emitter, MAX_NESTING_LEVEL, api, events, loader, document>>

\* The tail of yaml_parser_scan: the head of the queue is delivered.
ScanDequeue ==
    /\ pc = "dequeue"
    /\ parser' = [parser EXCEPT !.tokens = Tail(@),
                                !.token_available = FALSE,
                                !.tokens_parsed = @ + 1,
                                !.stream_end_produced =
                                    (@ \/ Head(parser.tokens).type
                                              = "STREAM_END")]
    /\ call' = Call("scan", 1, Head(parser.tokens), NO_EVENT)
    /\ pc' = "idle"
    /\ UNCHANGED <<application, emitter, MAX_NESTING_LEVEL, api, events, loader, document>>

NextFetch == ScanBegin \/ FetchMoreTokens \/ ScanDequeue

SpecFetch == InitFetch /\ [][NextFetch]_vars

(***************************************************************************)
(* Trailing spaces: two parsers are driven side by side through            *)
(* yaml_parser_scan, the first over an input and the second over that      *)
(* input with spaces added at its end.  In this specification parser and   *)
(* call are the pairs of the two parsers and of their last calls.          *)
(***************************************************************************)
MaxTrailPieces == 3

MaxTrail == 2

TrailPieces ==
    << <<"|", "\n">>, <<">", "\n">>, <<" ", "a">>, <<"\n">>, <<"x">>,
       <<"'", "b", "'">>, <<"\"", "c", "\"">>, <<"-", " ">>, <<":", " ">>,
       <<"#", "d">>, <<"[">>, <<"-", "-", "-">> >>

InitTrail ==
    /\ MAX_NESTING_LEVEL = 1000
    /\ emitter = NULL
    /\ application = NoApplication
    /\ \E input \in Inputs(TrailPieces, MaxTrailPieces), n \in 1..MaxTrail :
           parser = << yaml_parser_set_input_string(yaml_parser_initialize,
                                                    input),
                       yaml_parser_set_input_string(
                           yaml_parser_initialize,
                           input \o [k \in 1..n |-> " "]) >>
    /\ api = "scan"
    /\ pc = "idle"
    /\ call = <<NoCall, NoCall>>
    /\ events = <<>>
    /\ loader = <<>>
    /\ document = NO_DOCUMENT

\* Each of the two parsers scans its next token.
TrailScan ==
    LET returned(r) ==
            /\ parser' = <<r[1].p, r[2].p>>
            /\ call' = << Call("scan", r[1].result, r[1].token, NO_EVENT),
                          Call("scan", r[2].result, r[2].token, NO_EVENT) >>
    IN /\ pc = "idle"
       /\ returned([k \in 1..2 |-> Invoke("yaml_parser_scan", <<parser[k]>>)])
       /\ UNCHANGED <<application, emitter, MAX_NESTING_LEVEL, api, pc, events, loader, document>>

SpecTrail == InitTrail /\ [][TrailScan]_vars

(***************************************************************************)
(* The token queue in memory: an array of end - start slots of which the   *)
(* slots from head to tail hold the queued tokens.  The pointers are       *)
(* offsets from the start of the array, and a slot that has not been       *)
(* written holds the empty token.  The scanner appends the tokens it       *)
(* creates and inserts the KEY and BLOCK-MAPPING-START tokens of a simple  *)
(* key at the place of the key; the consumer removes the token at the      *)
(* head.  Every token bears its number as the index of its marks.          *)
(***************************************************************************)
INITIAL_QUEUE_SIZE == 16

MaxTokens == 18

MaxInserts == 1

QUEUE_INIT(size) ==
    [buffer |-> [k \in 1..size |-> NO_TOKEN],
     start |-> 0, head |-> 0, tail |-> 0, end |-> size]

\* A variant of _myyaml_queue_extend that moves the pointers to the start of
\* the array and leaves the tokens where they are.
myyaml_queue_extend_unmoved(queue) ==
    LET size == queue.end - queue.start
        q1 == IF queue.start = queue.head /\ queue.tail = queue.end
              THEN [queue EXCEPT !.buffer = @ \o [k \in 1..size |-> NO_TOKEN],
                                 !.end = queue.start + size * 2]
              ELSE queue
    IN IF q1.tail = q1.end
       THEN [q1 EXCEPT !.tail = q1.tail - q1.head + q1.start,
                       !.head = q1.start]
       ELSE q1

myyaml_queue_extend(queue) ==
    LET size == queue.end - queue.start
        q1 == IF queue.start = queue.head /\ queue.tail = queue.end
              THEN [queue EXCEPT !.buffer = @ \o [k \in 1..size |-> NO_TOKEN],
                                 !.end = queue.start + size * 2]
              ELSE queue
        memmove == [k \in DOMAIN q1.buffer |->
                       IF k - 1 \in q1.start..(q1.start + q1.tail - q1.head - 1)
                       THEN q1.buffer[k + q1.head - q1.start]
                       ELSE q1.buffer[k]]
    IN IF q1.tail = q1.end
       THEN [q1 EXCEPT !.buffer = IF q1.head # q1.tail THEN memmove ELSE @,
                       !.tail = q1.tail - q1.head + q1.start,
                       !.head = q1.start]
       ELSE q1

\* ENQUEUE on the array.
queue_ENQUEUE(queue, value) ==
    LET q == IF queue.tail # queue.end THEN queue
             ELSE myyaml_queue_extend(queue)
    IN [q EXCEPT !.buffer[q.tail + 1] = value, !.tail = @ + 1]

\* DEQUEUE on the array.
queue_DEQUEUE(queue) ==
    [queue |-> [queue EXCEPT !.head = @ + 1],
     value |-> queue.buffer[queue.head + 1]]

\* QUEUE_INSERT on the array.
queue_QUEUE_INSERT(queue, index, value) ==
    LET q == IF queue.tail # queue.end THEN queue
             ELSE myyaml_queue_extend(queue)
        to == q.head + index + 1
        size == q.tail - q.head - index
        memmove == [k \in DOMAIN q.buffer |->
                       IF k - 1 \in to..(to + size - 1)
                       THEN q.buffer[k - 1] ELSE q.buffer[k]]
    IN [q EXCEPT !.buffer = [memmove EXCEPT ![q.head + index + 1] = value],
                 !.tail = @ + 1]

\* The tokens of the queue, from its head to its tail.
Contents(queue) ==
    [k \in 1..(queue.tail - queue.head) |-> queue.buffer[queue.head + k]]

\* The numbers of the tokens created so far: those delivered and those in
\* the array.
Numbers ==
    {events[i].start_mark.index : i \in DOMAIN events}
    \cup {parser.tokens.buffer[k].start_mark.index :
             k \in DOMAIN parser.tokens.buffer}

\* The token that the scanner creates next.
Created(type) ==
    LET number == 1 + CHOOSE n \in Numbers : \A m \in Numbers : m <= n
    IN TOKEN_INIT(type, Mark(number, 0, 0), Mark(number, 0, 0))

InitQueue ==
    /\ MAX_NESTING_LEVEL = 1000
    /\ emitter = NULL
    /\ application = NoApplication
    /\ parser = [tokens |-> QUEUE_INIT(INITIAL_QUEUE_SIZE), tokens_parsed |-> 0]
    /\ api = "scan"
    /\ pc = "idle"
    /\ call = NoCall
    /\ events = <<>>
    /\ loader = <<>>
    /\ document = NO_DOCUMENT

\* The scanner appends a token.
TokenEnqueue ==
    /\ Cardinality(Numbers) <= MaxTokens
    /\ parser' = [parser EXCEPT
                     !.tokens = queue_ENQUEUE(@, Created("SCALAR"))]
    /\ call' = Call("ENQUEUE", 1, Created("SCALAR"), NO_EVENT)
    /\ UNCHANGED <<application, emitter, MAX_NESTING_LEVEL, api, pc, events, loader, document>>

\* The scanner inserts the token of a simple key, at the place in the queue
\* that the key has saved.
TokenInsert ==
    /\ Cardinality(Numbers) <= MaxTokens
    /\ Cardinality({n \in Numbers :
           \E k \in DOMAIN parser.tokens.buffer :
               /\ parser.tokens.buffer[k].type = "KEY"
               /\ parser.tokens.buffer[k].start_mark.index = n}
         \cup {events[i].start_mark.index :
                  i \in {j \in DOMAIN events : events[j].type = "KEY"}})
       < MaxInserts
    /\ \E token_number \in
           parser.tokens_parsed
           ..(parser.tokens_parsed + parser.tokens.tail - parser.tokens.head) :
           parser' = [parser EXCEPT
                         !.tokens = queue_QUEUE_INSERT(
                                        @, token_number - parser.tokens_parsed,
                                        Created("KEY"))]
    /\ call' = Call("QUEUE_INSERT", 1, Created("KEY"), NO_EVENT)
    /\ UNCHANGED <<application, emitter, MAX_NESTING_LEVEL, api, pc, events, loader, document>>

\* The consumer removes the token at the head of the queue.
TokenDequeue ==
    LET removed == queue_DEQUEUE(parser.tokens)
    IN /\ parser.tokens.head # parser.tokens.tail
       /\ parser' = [parser EXCEPT !.tokens = removed.queue,
                                   !.tokens_parsed = @ + 1]
       /\ call' = Call("DEQUEUE", 1, removed.value, NO_EVENT)
       /\ events' = Append(events, removed.value)
       /\ UNCHANGED <<application, emitter, MAX_NESTING_LEVEL, api, pc, loader, document>>

NextQueue == TokenEnqueue \/ TokenInsert \/ TokenDequeue

SpecQueue == InitQueue /\ [][NextQueue]_vars

(***************************************************************************)
(* The document API: the application adds nodes to a document (a loaded    *)
(* one or one it has initialized) and appends them to its collections.     *)
(* It loads no further document once it has begun to do so.                *)
(***************************************************************************)
\* A variant of yaml_check_utf8 that does not look at the trailing octets.
RECURSIVE yaml_check_utf8_loose(_)
yaml_check_utf8_loose(string) ==
    LET octet == ORD[string[1]]
        width == IF octet < 128 THEN 1
                 ELSE IF octet \div 32 = 6 THEN 2
                 ELSE IF octet \div 16 = 14 THEN 3
                 ELSE IF octet \div 8 = 30 THEN 4 ELSE 0
    IN IF string = <<>> THEN TRUE
       ELSE IF width = 0 \/ width > Len(string) THEN FALSE
       ELSE yaml_check_utf8_loose(SubSeq(string, width + 1, Len(string)))

RECURSIVE yaml_check_utf8(_)
yaml_check_utf8(string) ==
    LET octet(k) == ORD[string[k]]
        width == IF octet(1) < 128 THEN 1
                 ELSE IF octet(1) \div 32 = 6 THEN 2
                 ELSE IF octet(1) \div 16 = 14 THEN 3
                 ELSE IF octet(1) \div 8 = 30 THEN 4 ELSE 0
        RECURSIVE value(_)
        value(k) ==
            IF k > 1 THEN value(k - 1) * 64 + (octet(k) % 64)
            ELSE CASE width = 1 -> octet(1) [] width = 2 -> octet(1) % 32
                   [] width = 3 -> octet(1) % 16 [] OTHER -> octet(1) % 8
    IN IF string = <<>> THEN TRUE
       ELSE IF width = 0 \/ width > Len(string) THEN FALSE
       ELSE IF \E k \in 2..width : octet(k) \div 64 # 2 THEN FALSE
       ELSE IF ~(\/ width = 1
                 \/ width = 2 /\ value(2) >= 128
                 \/ width = 3 /\ value(3) >= 2048
                 \/ width = 4 /\ value(4) >= 65536)
       THEN FALSE
       ELSE yaml_check_utf8(SubSeq(string, width + 1, Len(string)))

\* yaml_document_add_scalar, yaml_document_add_sequence and
\* yaml_document_add_mapping: the id of the new node is returned, 0 on an
\* error.
yaml_document_add_node(d, type, tag, value, style) ==
    LET node(node_tag) ==
            [NODE_INIT(type, node_tag, Mark0, Mark0)
                EXCEPT !.value = value, !.style = style]
        add(node_tag) ==
            IF ~yaml_check_utf8(node_tag) \/ ~yaml_check_utf8(value)
            THEN [document |-> d, result |-> 0]
            ELSE [document |-> [d EXCEPT !.nodes = PUSH(@, node(node_tag))],
                  result |-> Len(d.nodes) + 1]
    IN add(IF tag = NULL THEN YAML_DEFAULT_TAG(type) ELSE tag)

\* ndebug tells whether the build drops the assertions; undefined is what a
\* build without them yields when the id of the collection is not the id
\* of a collection of that type (the behaviour is undefined).
yaml_document_append_sequence_item(d, sequence, item, ndebug, undefined) ==
    LET valid(id) == id > 0 /\ id <= Len(d.nodes)
        is_sequence == valid(sequence) /\ d.nodes[sequence].type = "SEQUENCE"
    IN IF ~ndebug /\ ~(is_sequence /\ valid(item))
       THEN [document |-> d, result |-> ABORT]
       ELSE IF ~is_sequence THEN [document |-> d, result |-> undefined]
       ELSE [document |-> [d EXCEPT !.nodes[sequence].items = PUSH(@, item)],
             result |-> 1]

yaml_document_append_mapping_pair(d, mapping, key, value, ndebug, undefined) ==
    LET valid(id) == id > 0 /\ id <= Len(d.nodes)
        is_mapping == valid(mapping) /\ d.nodes[mapping].type = "MAPPING"
    IN IF ~ndebug /\ ~(is_mapping /\ valid(key) /\ valid(value))
       THEN [document |-> d, result |-> ABORT]
       ELSE IF ~is_mapping THEN [document |-> d, result |-> undefined]
       ELSE [document |-> [d EXCEPT !.nodes[mapping].pairs =
                               PUSH(@, [key |-> key, value |-> value])],
             result |-> 1]

MaxNodes == 2

MaxItems == 1

MaxDocumentPieces == 2

DocumentPieces == << <<"-", " ">>, <<"x">>, <<":", " ">> >>

\* The ids the application may hand to the document API, valid or not.
NodeIds == 0..(MaxNodes + 1)

\* The number of items and pairs of the collections of a document.
DocumentItems(d) ==
    Cardinality(UNION {{<<n, i>> : i \in 1..(Len(d.nodes[n].items)
                                              + Len(d.nodes[n].pairs))} :
                       n \in DOMAIN d.nodes})

InitDocument ==
    Start(Inputs(DocumentPieces, MaxDocumentPieces)) /\ api = "load"

DocumentReturn(op, r) ==
    /\ document' = r.document
    /\ call' = Call(op, r.result, NO_TOKEN, NO_EVENT)
    /\ pc' = IF r.result = ABORT THEN "aborted" ELSE "idle"
    /\ api' = "document"
    /\ UNCHANGED <<application, emitter, MAX_NESTING_LEVEL, parser, events, loader>>

DocumentAddScalar ==
    /\ pc = "idle"
    /\ Len(document.nodes) < MaxNodes
    /\ \E tag \in {NULL}, value \in {<<"x">>, <<"xC3">>} :
           DocumentReturn("add_scalar",
               yaml_document_add_node(document, "SCALAR", tag, value, "PLAIN"))

DocumentAddSequence ==
    /\ pc = "idle"
    /\ Len(document.nodes) < MaxNodes
    /\ \E tag \in {NULL, <<"xC3">>} :
           DocumentReturn("add_sequence",
               yaml_document_add_node(document, "SEQUENCE", tag, <<>>, "BLOCK"))

DocumentAddMapping ==
    /\ pc = "idle"
    /\ Len(document.nodes) < MaxNodes
    /\ \E tag \in {NULL, <<"!", "t">>} :
           DocumentReturn("add_mapping",
               yaml_document_add_node(document, "MAPPING", tag, <<>>, "BLOCK"))

DocumentAppendSequenceItem ==
    /\ pc = "idle"
    /\ \E sequence, item \in NodeIds, ndebug \in BOOLEAN,
          undefined \in {ABORT, 0, 1} :
           /\ DocumentItems(document) < MaxItems
           /\ DocumentReturn("append_sequence_item",
                  yaml_document_append_sequence_item(
                      document, sequence, item, ndebug, undefined))

DocumentAppendMappingPair ==
    /\ pc = "idle"
    /\ \E mapping, key, value \in NodeIds, ndebug \in BOOLEAN,
          undefined \in {ABORT, 0, 1} :
           /\ DocumentItems(document) < MaxItems
           /\ DocumentReturn("append_mapping_pair",
                  yaml_document_append_mapping_pair(
                      document, mapping, key, value, ndebug, undefined))

NextDocument ==
    \/ ParserLoad
    \/ LoadNodes
    \/ DocumentAddScalar
    \/ DocumentAddSequence
    \/ DocumentAddMapping
    \/ DocumentAppendSequenceItem
    \/ DocumentAppendMappingPair

SpecDocument == InitDocument /\ [][NextDocument]_vars

(***************************************************************************)
(* The accessors of a document and the walk along a path of keys.  A key   *)
(* is a C string; atoi converts it as strtol does, which stops at the      *)
(* greatest long, and the long is narrowed to an int of 32 bits.  A key    *)
(* too great for an int is undefined behaviour: the outcome depends on the *)
(* width of long in the build, 32 or 64 bits.                              *)
(***************************************************************************)
\* The node that stands for the null pointer.
NO_NODE == NODE_INIT("NO", NULL, Mark0, Mark0)

yaml_document_get_node(d, index) ==
    IF index > 0 /\ index <= Len(d.nodes) THEN d.nodes[index] ELSE NO_NODE

yaml_document_get_root_node(d) ==
    IF d.nodes # <<>> THEN d.nodes[1] ELSE NO_NODE

yaml_document_sequence_get_item(d, sequence_node_id, index) ==
    LET node == yaml_document_get_node(d, sequence_node_id)
    IN IF node.type = "NO" THEN 0
       ELSE IF node.type # "SEQUENCE" THEN 0
       ELSE IF index < 0 \/ index >= Len(node.items) THEN 0
       ELSE node.items[index + 1]

yaml_document_mapping_get_value(d, mapping_node_id, key, key_length) ==
    LET node == yaml_document_get_node(d, mapping_node_id)
        length == IF key_length < 0 THEN Len(key) ELSE key_length
        equal(i) ==
            LET k == yaml_document_get_node(d, node.pairs[i].key)
            IN /\ k.type = "SCALAR"
               /\ Len(k.value) = length
               /\ k.value = SubSeq(key, 1, length)
        found == {i \in DOMAIN node.pairs : equal(i)}
    IN IF node.type = "NO" THEN 0
       ELSE IF node.type # "MAPPING" THEN 0
       ELSE IF found = {} THEN 0
       ELSE node.pairs[CHOOSE i \in found : \A j \in found : i <= j].value

is_decimal_string(s) ==
    /\ s # <<>>
    /\ \A k \in DOMAIN s : IS_DIGIT(s[k])

\* strtol on a string of decimal digits: the number in four limbs of 16
\* bits, the least first, and whether it has passed the greatest long of 64
\* bits.
RECURSIVE strtol(_)
strtol(s) ==
    IF s = <<>> THEN [limbs |-> <<0, 0, 0, 0>>, over |-> FALSE]
    ELSE LET r == strtol(SubSeq(s, 1, Len(s) - 1))
             t1 == r.limbs[1] * 10 + AS_DIGIT(s[Len(s)])
             t2 == r.limbs[2] * 10 + t1 \div 65536
             t3 == r.limbs[3] * 10 + t2 \div 65536
             t4 == r.limbs[4] * 10 + t3 \div 65536
         IN [limbs |-> <<t1 % 65536, t2 % 65536, t3 % 65536, t4 % 65536>>,
             over |-> r.over \/ t4 >= 32768]

\* atoi: the long that strtol returns, which is the greatest long when the
\* number is greater, narrowed to an int of 32 bits.
atoi(s, long) ==
    LET v == strtol(s)
        low == IF v.limbs[2] >= 32768
               THEN (v.limbs[2] - 65536) * 65536 + v.limbs[1]
               ELSE v.limbs[2] * 65536 + v.limbs[1]
    IN IF long = 64 THEN IF v.over THEN -1 ELSE low
       ELSE IF v.over \/ v.limbs[4] # 0 \/ v.limbs[3] # 0 \/ low < 0
       THEN 2147483647
       ELSE low

yaml_document_get_node_by_path(d, keys, long) ==
    LET RECURSIVE walk(_, _)
        walk(current_id, i) ==
            LET node == yaml_document_get_node(d, current_id)
                found_id == yaml_document_mapping_get_value(d, current_id,
                                                            keys[i], -1)
                item_id == yaml_document_sequence_get_item(
                               d, current_id, atoi(keys[i], long))
            IN IF i > Len(keys) THEN current_id
               ELSE IF node.type = "NO" THEN 0
               ELSE IF node.type = "MAPPING"
               THEN IF found_id = 0 THEN 0 ELSE walk(found_id, i + 1)
               ELSE IF node.type = "SEQUENCE"
               THEN IF ~is_decimal_string(keys[i]) THEN 0
                    ELSE IF item_id = 0 THEN 0
                    ELSE walk(item_id, i + 1)
               ELSE 0
    IN IF keys = <<>> THEN 0
       ELSE IF yaml_document_get_root_node(d).type = "NO" THEN 0
       ELSE walk(1, 1)

(***************************************************************************)
(* The application loads the documents of an input and asks for the nodes  *)
(* at paths of keys.                                                       *)
(***************************************************************************)
MaxKeys == 2

PathInputs ==
    { <<>>, <<"x">>,
      <<"[", "a", ",", " ", "b", ",", " ", "[", "c", "]", "]">>,
      <<"{", "a", ":", " ", "[", "c", ",", " ", "d", "]", ",", " ",
        "0", ":", " ", "e", ",", " ", "a", ":", " ", "f", ",", " ",
        "[", "g", "]", ":", " ", "h", "}">> }

PathKeys ==
    { <<"0">>, <<"1">>, <<"2">>, <<"3">>, <<"0", "1">>, <<"a">>, <<"b">>,
      <<"1", "a">>, <<"-", "1">>, <<>>,
      <<"4", "2", "9", "4", "9", "6", "7", "2", "9", "6">>,
      <<"4", "2", "9", "4", "9", "6", "7", "2", "9", "8">>,
      <<"2", "1", "4", "7", "4", "8", "3", "6", "4", "8">> }

InitPath == Start(PathInputs) /\ api = "load"

GetNodeByPath ==
    /\ pc = "idle"
    /\ call.op # "none"
    /\ call.result = 1
    /\ \E n \in 0..MaxKeys :
           \E keys \in [1..n -> PathKeys], long \in {32, 64} :
               call' = [op |-> "get_node_by_path",
                        result |-> yaml_document_get_node_by_path(
                                       document, keys, long),
                        token |-> NO_TOKEN, event |-> NO_EVENT,
                        keys |-> keys]
    /\ UNCHANGED <<application, emitter, MAX_NESTING_LEVEL, parser, api, pc, events, loader,
                   document>>

NextPath == ParserLoad \/ LoadNodes \/ GetNodeByPath

SpecPath == InitPath /\ [][NextPath]_vars

(***************************************************************************)
(* The reader: the encoding is determined from the byte order mark and the *)
(* raw input is decoded, character by character, up to its end or to the   *)
(* first character that the reader refuses.  The input is short enough for *)
(* one read to bring it all into the raw buffer.                           *)
(***************************************************************************)
yaml_parser_set_reader_error(p, problem, offset, value) ==
    [p EXCEPT !.error = "READER", !.problem = problem,
              !.problem_offset = offset, !.problem_value = value]

yaml_parser_determine_encoding(raw) ==
    LET starts(bom) == Len(raw) >= Len(bom) /\ SubSeq(raw, 1, Len(bom)) = bom
    IN IF starts(<<"xFF", "xFE">>) THEN [encoding |-> "UTF16LE", offset |-> 2]
       ELSE IF starts(<<"xFE", "xFF">>)
       THEN [encoding |-> "UTF16BE", offset |-> 2]
       ELSE IF starts(<<"xEF", "xBB", "xBF">>)
       THEN [encoding |-> "UTF8", offset |-> 3]
       ELSE [encoding |-> "UTF8", offset |-> 0]

\* The character of the raw input at the offset, decoded: its value and its
\* width, or the problem that the reader reports.
DecodeUtf8(raw, offset) ==
    LET octet(k) == ORD[raw[offset + k + 1]]
        raw_unread == Len(raw) - offset
        width == IF octet(0) < 128 THEN 1
                 ELSE IF octet(0) \div 32 = 6 THEN 2
                 ELSE IF octet(0) \div 16 = 14 THEN 3
                 ELSE IF octet(0) \div 8 = 30 THEN 4 ELSE 0
        RECURSIVE value(_)
        value(k) ==
            IF k > 0 THEN value(k - 1) * 64 + (octet(k) % 64)
            ELSE CASE width = 1 -> octet(0) [] width = 2 -> octet(0) % 32
                   [] width = 3 -> octet(0) % 16 [] OTHER -> octet(0) % 8
        bad == {k \in 1..(width - 1) : octet(k) \div 64 # 2}
        Problem(problem, at, v) ==
            [problem |-> problem, offset |-> at, value |-> v, width |-> 0]
    IN IF width = 0
       THEN Problem("invalid leading UTF-8 octet", offset, octet(0))
       ELSE IF width > raw_unread
       THEN Problem("incomplete UTF-8 octet sequence", offset, -1)
       ELSE IF bad # {}
       THEN LET k == CHOOSE k \in bad : \A j \in bad : k <= j
            IN Problem("invalid trailing UTF-8 octet", offset + k, octet(k))
       ELSE IF ~(\/ width = 1
                 \/ width = 2 /\ value(1) >= 128
                 \/ width = 3 /\ value(2) >= 2048
                 \/ width = 4 /\ value(3) >= 65536)
       THEN Problem("invalid length of a UTF-8 sequence", offset, -1)
       ELSE IF value(width - 1) \in 55296..57343 \/ value(width - 1) > 1114111
       THEN Problem("invalid Unicode character", offset, value(width - 1))
       ELSE [problem |-> "NULL", offset |-> offset,
             value |-> value(width - 1), width |-> width]

DecodeUtf16(raw, offset, low, high) ==
    LET raw_unread == Len(raw) - offset
        unit(k) == ORD[raw[offset + k + low + 1]]
                   + ORD[raw[offset + k + high + 1]] * 256
        Problem(problem, at, v) ==
            [problem |-> problem, offset |-> at, value |-> v, width |-> 0]
    IN IF raw_unread < 2
       THEN Problem("incomplete UTF-16 character", offset, -1)
       ELSE IF unit(0) \div 1024 = 55
       THEN Problem("unexpected low surrogate area", offset, unit(0))
       ELSE IF unit(0) \div 1024 = 54
       THEN IF raw_unread < 4
            THEN Problem("incomplete UTF-16 surrogate pair", offset, -1)
            ELSE IF unit(2) \div 1024 # 55
            THEN Problem("expected low surrogate area", offset + 2, unit(2))
            ELSE [problem |-> "NULL", offset |-> offset,
                  value |-> 65536 + (unit(0) % 1024) * 1024 + (unit(2) % 1024),
                  width |-> 4]
       ELSE [problem |-> "NULL", offset |-> offset, value |-> unit(0),
             width |-> 2]

\* The characters that the reader lets through.
Allowed(value) ==
    \/ value \in {9, 10, 13, 133}
    \/ value \in 32..126
    \/ value \in 160..55295
    \/ value \in 57344..65533
    \/ value \in 65536..1114111

\* yaml_parser_update_buffer, called until the whole input is decoded: the
\* parser with the error of the reader, if there is one.
yaml_parser_update_buffer(p) ==
    LET raw == p.input
        found == yaml_parser_determine_encoding(raw)
        Decode(offset) ==
            CASE found.encoding = "UTF8" -> DecodeUtf8(raw, offset)
              [] found.encoding = "UTF16LE" -> DecodeUtf16(raw, offset, 0, 1)
              [] found.encoding = "UTF16BE" -> DecodeUtf16(raw, offset, 1, 0)
        RECURSIVE loop(_)
        loop(offset) ==
            IF offset = Len(raw) THEN p
            ELSE IF Decode(offset).problem # "NULL"
            THEN yaml_parser_set_reader_error(
                     p, Decode(offset).problem, Decode(offset).offset,
                     Decode(offset).value)
            ELSE IF ~Allowed(Decode(offset).value)
            THEN yaml_parser_set_reader_error(
                     p, "control characters are not allowed", offset,
                     Decode(offset).value)
            ELSE loop(offset + Decode(offset).width)
    IN loop(found.offset)

(***************************************************************************)
(* A string of octets is checked by yaml_check_utf8 and is read by a       *)
(* parser.                                                                 *)
(***************************************************************************)
MaxOctets == 4

OctetPieces ==
    {"x01", "\t", "A", "x7F", "x80", "x85", "x90", "xA0", "xBB", "xBF",
     "xC2", "xED", "xEF", "xF4", "xFE", "xFF"}

InitUtf8 ==
    /\ MAX_NESTING_LEVEL = 1000
    /\ emitter = NULL
    /\ application = NoApplication
    /\ \E n \in 0..MaxOctets :
           \E input \in [1..n -> OctetPieces] :
               parser = yaml_parser_set_input_string(yaml_parser_initialize,
                                                     input)
    /\ api = "scan"
    /\ pc = "idle"
    /\ call = NoCall
    /\ events = <<>>
    /\ loader = <<>>
    /\ document = NO_DOCUMENT

CheckAndRead ==
    /\ pc = "idle"
    /\ pc' = "read"
    /\ call' = Call("yaml_check_utf8",
                    IF yaml_check_utf8(parser.input) THEN 1 ELSE 0,
                    NO_TOKEN, NO_EVENT)
    /\ parser' = yaml_parser_update_buffer(parser)
    /\ UNCHANGED <<application, emitter, MAX_NESTING_LEVEL, api, events, loader, document>>

SpecUtf8 == InitUtf8 /\ [][CheckAndRead]_vars

(***************************************************************************)
(* The emitter: events in, characters out.  The strings of the events hold *)
(* ASCII characters, so that a character is one octet.  A function that    *)
(* returns 1 or 0 in the code takes and returns here the emitter and ok,   *)
(* which tells whether every call up to here has returned 1; it does       *)
(* nothing when ok is FALSE.  Of the allocations only the one that extends *)
(* the queue of events may fail.                                           *)
(***************************************************************************)
OUTPUT_BUFFER_SIZE == 16384

Ok(e) == [e |-> e, ok |-> TRUE]

IS_SPACE(c) == c = " "

IS_ASCII(c) == ORD[c] <= 127

IS_PRINTABLE(c) == c = "\n" \/ (ORD[c] >= 32 /\ ORD[c] <= 126)

yaml_emitter_set_writer_error(e, problem) ==
    [e |-> [e EXCEPT !.error = "WRITER", !.problem = problem], ok |-> FALSE]

yaml_emitter_set_emitter_error(r, problem) ==
    IF ~r.ok THEN r
    ELSE [e |-> [r.e EXCEPT !.error = "EMITTER", !.problem = problem],
          ok |-> FALSE]

\* A variant of yaml_string_write_handler that copies the whole buffer
\* whatever room is left.
yaml_string_write_handler_all(e, buffer) ==
    Ok([e EXCEPT !.output.buffer = @ \o buffer,
                 !.output.size_written = @ + Len(buffer)])

\* output.buffer is what has been copied into the string of the
\* application, which has room for output.size octets.
yaml_string_write_handler(e, buffer) ==
    IF e.output.size - e.output.size_written < Len(buffer)
    THEN [e |-> [e EXCEPT !.output.buffer =
                              @ \o SubSeq(buffer, 1, e.output.size
                                              - e.output.size_written),
                          !.output.size_written = e.output.size],
          ok |-> FALSE]
    ELSE Ok([e EXCEPT !.output.buffer = @ \o buffer,
                      !.output.size_written = @ + Len(buffer)])

\* The characters of the buffer in UTF-16, after what the raw buffer holds.
RECURSIVE Recode(_, _, _)
Recode(buffer, raw, low) ==
    IF buffer = <<>> THEN raw
    ELSE LET octet == ORD[buffer[1]]
             width == IF octet < 128 THEN 1
                      ELSE IF octet \div 32 = 6 THEN 2
                      ELSE IF octet \div 16 = 14 THEN 3
                      ELSE IF octet \div 8 = 30 THEN 4
                      ELSE 0
             leading == IF octet < 128 THEN octet
                        ELSE IF octet \div 32 = 6 THEN octet % 32
                        ELSE IF octet \div 16 = 14 THEN octet % 16
                        ELSE IF octet \div 8 = 30 THEN octet % 8
                        ELSE 0
             RECURSIVE trailing(_, _)
             trailing(k, value) ==
                 IF k >= width THEN value
                 ELSE trailing(k + 1, value * 64 + (ORD[buffer[k + 1]] % 64))
             value == trailing(1, leading)
             pair(h, l) == IF low = 0 THEN <<BYTE[l + 1], BYTE[h + 1]>>
                           ELSE <<BYTE[h + 1], BYTE[l + 1]>>
             surrogate == value - 65536
         IN Recode(SubSeq(buffer, width + 1, Len(buffer)),
                   raw \o (IF value < 65536
                           THEN pair(value \div 256, value % 256)
                           ELSE pair(216 + surrogate \div 262144,
                                     (surrogate \div 1024) % 256)
                                \o pair((220 + ((surrogate \div 256) % 256)) % 256,
                                        surrogate % 256)),
                   low)

\* A variant of yaml_emitter_flush that writes nothing.
yaml_emitter_flush_none(e) == Ok(e)

\* buffer holds the characters from buffer.start to buffer.pointer, and
\* raw_buffer those from raw_buffer.start to raw_buffer.last.  A write of
\* UTF-8 that fails leaves the pointer at the start, a write of UTF-16 that
\* fails leaves it behind the characters.
yaml_emitter_flush(e) ==
    LET written(r) ==
            IF r.ok THEN Ok([r.e EXCEPT !.buffer = <<>>, !.raw_buffer = <<>>])
            ELSE yaml_emitter_set_writer_error(r.e, "write error")
    IN IF e.buffer = <<>> THEN Ok(e)
       ELSE IF e.encoding = "UTF8"
       THEN written(yaml_string_write_handler([e EXCEPT !.buffer = <<>>],
                                              e.buffer))
       ELSE written(yaml_string_write_handler(
                [e EXCEPT !.raw_buffer =
                              Recode(e.buffer, e.raw_buffer,
                                     IF e.encoding = "UTF16LE" THEN 0 ELSE 1)],
                Recode(e.buffer, e.raw_buffer,
                       IF e.encoding = "UTF16LE" THEN 0 ELSE 1)))

\* The functions of the emitter that are called by their names.
RECURSIVE Emit(_, _)

Flush(r) == IF ~r.ok THEN r ELSE Emit("yaml_emitter_flush", <<r.e>>)

FLUSH(r) ==
    IF ~r.ok \/ Len(r.e.buffer) + 5 < OUTPUT_BUFFER_SIZE THEN r
    ELSE Emit("yaml_emitter_flush", <<r.e>>)

Put(r, octets) ==
    IF ~r.ok THEN r
    ELSE Ok([r.e EXCEPT !.buffer = @ \o octets, !.column = @ + 1])

PUT(r, value) == Put(FLUSH(r), <<value>>)

Break(r) ==
    IF ~r.ok THEN r
    ELSE Ok([r.e EXCEPT !.buffer = @ \o (CASE r.e.line_break = "CR" -> <<"\r">>
                                           [] r.e.line_break = "LN" -> <<"\n">>
                                           [] r.e.line_break = "CRLN" ->
                                                  <<"\r", "\n">>
                                           [] OTHER -> <<>>),
                        !.column = 0, !.line = @ + 1])

PUT_BREAK(r) == Break(FLUSH(r))

\* WRITE for each character of the string.
RECURSIVE WRITE(_, _)
WRITE(r, string) ==
    IF ~r.ok \/ string = <<>> THEN r
    ELSE WRITE(PUT(r, Head(string)), Tail(string))

\* The character at string.pointer is c.
WRITE_BREAK(r, c) ==
    IF c = "\n" THEN Break(FLUSH(FLUSH(r)))
    ELSE IF ~FLUSH(r).ok THEN FLUSH(r)
    ELSE Ok([FLUSH(r).e EXCEPT !.buffer = Append(@, c), !.column = 0,
                               !.line = @ + 1])

(***************************************************************************)
(* The writers.                                                            *)
(***************************************************************************)
\* The assignments to whitespace and indention that end a writer.
Wrote(r, whitespace, indention) ==
    IF ~r.ok THEN r
    ELSE Ok([r.e EXCEPT !.whitespace = whitespace, !.indention = indention])

\* PUT(emitter, ' ') when the condition holds of the emitter.
Space(r, need_whitespace) ==
    IF r.ok /\ need_whitespace /\ ~r.e.whitespace THEN PUT(r, " ") ELSE r

yaml_emitter_write_bom(r) ==
    IF ~FLUSH(r).ok THEN FLUSH(r)
    ELSE Ok([FLUSH(r).e EXCEPT !.buffer = @ \o <<"xEF", "xBB", "xBF">>])

RECURSIVE Indent(_, _)
Indent(r, indent) ==
    IF ~r.ok \/ r.e.column >= indent THEN r
    ELSE Indent(PUT(r, " "), indent)

yaml_emitter_write_indent(r) ==
    IF ~r.ok THEN r
    ELSE LET indent == IF r.e.indent >= 0 THEN r.e.indent ELSE 0
         IN Wrote(Indent(IF \/ ~r.e.indention
                              \/ r.e.column > indent
                              \/ (r.e.column = indent /\ ~r.e.whitespace)
                           THEN PUT_BREAK(r) ELSE r,
                           indent),
                    TRUE, TRUE)

yaml_emitter_write_indicator(r, indicator, need_whitespace, is_whitespace, is_indention) ==
    IF ~r.ok THEN r
    ELSE Wrote(WRITE(Space(r, need_whitespace), indicator),
                 is_whitespace, r.e.indention /\ is_indention)

yaml_emitter_write_anchor(r, value) == Wrote(WRITE(r, value), FALSE, FALSE)

yaml_emitter_write_tag_handle(r, value) ==
    Wrote(WRITE(Space(r, TRUE), value), FALSE, FALSE)

\* The digit of a number in base 16, as the code computes it:
\* digit + (digit < 10 ? '0' : 'A' - 10).
AsHex(digit) == BYTE[digit + (IF digit < 10 THEN 48 ELSE 55) + 1]

RECURSIVE TagContent(_, _)
TagContent(r, string) ==
    IF ~r.ok \/ string = <<>> THEN r
    ELSE IF \/ IS_ALPHA(Head(string))
            \/ Head(string) \in {";", "/", "?", ":", "@", "&", "=", "+", "$",
                                 ",", "_", ".", "~", "*", "'", "(", ")", "[",
                                 "]"}
    THEN TagContent(PUT(r, Head(string)), Tail(string))
    ELSE TagContent(PUT(PUT(PUT(r, "%"), AsHex(ORD[Head(string)] \div 16)),
                        AsHex(ORD[Head(string)] % 16)),
                    Tail(string))

yaml_emitter_write_tag_content(r, value, need_whitespace) ==
    Wrote(TagContent(Space(r, need_whitespace), value), FALSE, FALSE)

\* The assignment to indention inside the loop of a writer.
Indention(r, indention) ==
    IF ~r.ok THEN r ELSE Ok([r.e EXCEPT !.indention = indention])

\* The character of the string at the offset from the pointer k, NUL past
\* the end of the string.
Char(string, k) == IF k \in DOMAIN string THEN string[k] ELSE NUL

\* The loop of yaml_emitter_write_plain_scalar (quote is "") and of
\* yaml_emitter_write_single_quoted_scalar (quote is "'"), from the
\* character k of the string.
RECURSIVE PlainOrSingleQuoted(_, _, _, _, _, _, _)
PlainOrSingleQuoted(r, string, k, allow_breaks, spaces, breaks, quote) ==
    IF ~r.ok THEN r
    ELSE IF k > Len(string)
    THEN IF quote = "'" /\ breaks THEN yaml_emitter_write_indent(r) ELSE r
    ELSE IF IS_SPACE(string[k])
    THEN PlainOrSingleQuoted(
             IF /\ allow_breaks /\ ~spaces
                /\ r.e.column > r.e.best_width
                /\ (quote = "'" => k # 1 /\ k # Len(string))
                /\ ~IS_SPACE(Char(string, k + 1))
             THEN yaml_emitter_write_indent(r)
             ELSE PUT(r, string[k]),
             string, k + 1, allow_breaks, TRUE, breaks, quote)
    ELSE IF IS_BREAK(string[k])
    THEN PlainOrSingleQuoted(
             Indention(WRITE_BREAK(IF ~breaks /\ string[k] = "\n"
                                   THEN PUT_BREAK(r) ELSE r,
                                   string[k]),
                       TRUE),
             string, k + 1, allow_breaks, spaces, TRUE, quote)
    ELSE PlainOrSingleQuoted(
             Indention(PUT(IF string[k] = "'" /\ quote = "'"
                           THEN PUT(IF breaks THEN yaml_emitter_write_indent(r)
                                    ELSE r, "'")
                           ELSE IF breaks THEN yaml_emitter_write_indent(r)
                           ELSE r,
                           string[k]),
                       FALSE),
             string, k + 1, allow_breaks, FALSE, FALSE, quote)

yaml_emitter_write_plain_scalar(r, value, allow_breaks) ==
    IF ~r.ok THEN r
    ELSE Wrote(PlainOrSingleQuoted(
                     IF ~r.e.whitespace /\ (value # <<>> \/ r.e.flow_level > 0)
                     THEN PUT(r, " ") ELSE r,
                     value, 1, allow_breaks, FALSE, FALSE, ""),
                 FALSE, FALSE)

yaml_emitter_write_single_quoted_scalar(r, value, allow_breaks) ==
    Wrote(yaml_emitter_write_indicator(
                PlainOrSingleQuoted(
                    yaml_emitter_write_indicator(r, <<"'">>, TRUE, FALSE,
                                                 FALSE),
                    value, 1, allow_breaks, FALSE, FALSE, "'"),
                <<"'">>, FALSE, FALSE, FALSE),
            FALSE, FALSE)

\* The character after the backslash for the character of the value, and
\* the digits after it.
Escaped(value) ==
    CASE value = 0 -> <<"0">> [] value = 7 -> <<"a">> [] value = 8 -> <<"b">>
      [] value = 9 -> <<"t">> [] value = 10 -> <<"n">>
      [] value = 11 -> <<"v">> [] value = 12 -> <<"f">>
      [] value = 13 -> <<"r">> [] value = 27 -> <<"e">>
      [] value = 34 -> <<"\"">> [] value = 92 -> <<"\\">>
      [] value = 133 -> <<"N">> [] value = 160 -> <<"_">>
      [] value = 8232 -> <<"L">> [] value = 8233 -> <<"P">>
      [] OTHER ->
             LET width == IF value <= 255 THEN 2
                          ELSE IF value <= 65535 THEN 4 ELSE 8
             IN <<IF width = 2 THEN "x" ELSE IF width = 4 THEN "u" ELSE "U">>
                \o [i \in 1..width |->
                       AsHex((value \div (16 ^ (width - i))) % 16)]

\* The width of the character at string.pointer, from its first octet, and
\* its value.
Escaping(string, k) ==
    LET octet(j) == ORD[Char(string, k + j)]
        width == WIDTH(Char(string, k))
        RECURSIVE value(_)
        value(j) ==
            IF j > 0 THEN value(j - 1) * 64 + (octet(j) % 64)
            ELSE CASE width = 1 -> octet(0) % 128
                   [] width = 2 -> octet(0) % 32
                   [] width = 3 -> octet(0) % 16
                   [] width = 4 -> octet(0) % 8
                   [] OTHER -> 0
    IN [width |-> width, value |-> value(IF width = 0 THEN 0 ELSE width - 1)]

RECURSIVE DoubleQuoted(_, _, _, _, _)
DoubleQuoted(r, string, k, allow_breaks, spaces) ==
    IF ~r.ok \/ k > Len(string) THEN r
    ELSE IF \/ ~IS_PRINTABLE(string[k]) \/ IS_BREAK(string[k])
            \/ string[k] \in {"\"", "\\"}
    THEN DoubleQuoted(WRITE(PUT(r, "\\"), Escaped(Escaping(string, k).value)),
                      string, k + Escaping(string, k).width, allow_breaks,
                      FALSE)
    ELSE IF IS_SPACE(string[k])
    THEN DoubleQuoted(
             IF /\ allow_breaks /\ ~spaces
                /\ r.e.column > r.e.best_width
                /\ k # 1 /\ k # Len(string)
             THEN IF IS_SPACE(Char(string, k + 1))
                  THEN PUT(yaml_emitter_write_indent(r), "\\")
                  ELSE yaml_emitter_write_indent(r)
             ELSE PUT(r, string[k]),
             string, k + 1, allow_breaks, TRUE)
    ELSE DoubleQuoted(PUT(r, string[k]), string, k + 1, allow_breaks, FALSE)

yaml_emitter_write_double_quoted_scalar(r, value, allow_breaks) ==
    Wrote(yaml_emitter_write_indicator(
                DoubleQuoted(
                    yaml_emitter_write_indicator(r, <<"\"">>, TRUE, FALSE,
                                                 FALSE),
                    value, 1, allow_breaks, FALSE),
                <<"\"">>, FALSE, FALSE, FALSE),
            FALSE, FALSE)

\* The assignment to open_ended.
OpenEnded(r, open_ended) ==
    IF ~r.ok THEN r ELSE Ok([r.e EXCEPT !.open_ended = open_ended])

\* yaml_emitter_write_indicator for a hint that is not NULL.
Hint(r, hint) ==
    IF hint = <<>> THEN r
    ELSE yaml_emitter_write_indicator(r, hint, FALSE, FALSE, FALSE)

\* A variant of yaml_emitter_write_block_scalar_hints that writes the keep
\* indicator and leaves open_ended at 1.
yaml_emitter_write_block_scalar_hints_closed(r, string) ==
    LET n == Len(string)
        keep == \/ (n = 1 /\ IS_BREAK(string[n]))
                \/ (n > 1 /\ IS_BREAK(string[n]) /\ IS_BREAK(string[n - 1]))
        chomp_hint == IF n = 0 \/ ~IS_BREAK(string[n]) THEN <<"-">>
                      ELSE IF keep THEN <<"+">>
                      ELSE <<>>
    IN IF ~r.ok THEN r
       ELSE Hint(OpenEnded(Hint(r, IF IS_SPACE(Char(string, 1))
                                      \/ IS_BREAK(Char(string, 1))
                                   THEN <<BYTE[48 + r.e.best_indent + 1]>>
                                   ELSE <<>>),
                           IF keep THEN 1 ELSE 0),
                 chomp_hint)

yaml_emitter_write_block_scalar_hints(r, string) ==
    LET n == Len(string)
        keep == \/ (n = 1 /\ IS_BREAK(string[n]))
                \/ (n > 1 /\ IS_BREAK(string[n]) /\ IS_BREAK(string[n - 1]))
        chomp_hint == IF n = 0 \/ ~IS_BREAK(string[n]) THEN <<"-">>
                      ELSE IF keep THEN <<"+">>
                      ELSE <<>>
    IN IF ~r.ok THEN r
       ELSE Hint(OpenEnded(Hint(r, IF IS_SPACE(Char(string, 1))
                                      \/ IS_BREAK(Char(string, 1))
                                   THEN <<BYTE[48 + r.e.best_indent + 1]>>
                                   ELSE <<>>),
                           IF keep THEN 2 ELSE 0),
                 chomp_hint)

RECURSIVE Literal(_, _, _, _)
Literal(r, string, k, breaks) ==
    IF ~r.ok \/ k > Len(string) THEN r
    ELSE IF IS_BREAK(string[k])
    THEN Literal(Indention(WRITE_BREAK(r, string[k]), TRUE), string, k + 1,
                 TRUE)
    ELSE Literal(Indention(PUT(IF breaks THEN yaml_emitter_write_indent(r)
                               ELSE r,
                               string[k]),
                           FALSE),
                 string, k + 1, FALSE)

yaml_emitter_write_literal_scalar(r, value) ==
    Literal(Wrote(PUT_BREAK(yaml_emitter_write_block_scalar_hints(
                        yaml_emitter_write_indicator(r, <<"|">>, TRUE, FALSE,
                                                     FALSE),
                        value)),
                    TRUE, TRUE),
            value, 1, TRUE)

\* The first character from k on that is not a line break.
RECURSIVE AfterBreaks(_, _)
AfterBreaks(string, k) ==
    IF IS_BREAK(Char(string, k)) THEN AfterBreaks(string, k + 1)
    ELSE Char(string, k)

RECURSIVE Folded(_, _, _, _, _)
Folded(r, string, k, breaks, leading_spaces) ==
    IF ~r.ok \/ k > Len(string) THEN r
    ELSE IF IS_BREAK(string[k])
    THEN Folded(Indention(
                    WRITE_BREAK(IF /\ ~breaks /\ ~leading_spaces
                                   /\ string[k] = "\n"
                                   /\ ~IS_BLANKZ(AfterBreaks(string, k))
                                THEN PUT_BREAK(r) ELSE r,
                                string[k]),
                    TRUE),
                string, k + 1, TRUE, leading_spaces)
    ELSE Folded(Indention(
                    IF /\ ~breaks /\ IS_SPACE(string[k])
                       /\ ~IS_SPACE(Char(string, k + 1))
                       /\ r.e.column > r.e.best_width
                    THEN yaml_emitter_write_indent(r)
                    ELSE PUT(IF breaks THEN yaml_emitter_write_indent(r)
                             ELSE r,
                             string[k]),
                    FALSE),
                string, k + 1, FALSE,
                IF breaks THEN IS_BLANK(string[k]) ELSE leading_spaces)

yaml_emitter_write_folded_scalar(r, value) ==
    Folded(Wrote(PUT_BREAK(yaml_emitter_write_block_scalar_hints(
                       yaml_emitter_write_indicator(r, <<">">>, TRUE, FALSE,
                                                    FALSE),
                       value)),
                   TRUE, TRUE),
           value, 1, TRUE, TRUE)

(***************************************************************************)
(* The analysis of an event: the anchor, the tag and the scalar that the   *)
(* state machine is to write.                                              *)
(***************************************************************************)
\* strlen of a string that may be NULL where the code keeps 0 next to NULL.
Length(string) == IF string = NULL THEN 0 ELSE Len(string)

yaml_emitter_analyze_version_directive(r, version_directive) ==
    IF version_directive[1] # 1
       \/ (version_directive[2] # 1 /\ version_directive[2] # 2)
    THEN yaml_emitter_set_emitter_error(r, "incompatible %YAML directive")
    ELSE r

yaml_emitter_analyze_tag_directive(r, tag_directive) ==
    LET handle == tag_directive.handle
    IN IF handle = <<>>
       THEN yaml_emitter_set_emitter_error(r, "tag handle must not be empty")
       ELSE IF handle[1] # "!"
       THEN yaml_emitter_set_emitter_error(r,
                "tag handle must start with '!'")
       ELSE IF handle[Len(handle)] # "!"
       THEN yaml_emitter_set_emitter_error(r, "tag handle must end with '!'")
       ELSE IF \E k \in 2..(Len(handle) - 1) : ~IS_ALPHA(handle[k])
       THEN yaml_emitter_set_emitter_error(r,
                "tag handle must contain alphanumerical characters only")
       ELSE IF tag_directive.prefix = <<>>
       THEN yaml_emitter_set_emitter_error(r, "tag prefix must not be empty")
       ELSE r

\* A variant of yaml_emitter_analyze_anchor that accepts the empty string.
yaml_emitter_analyze_anchor_empty(r, anchor, alias) ==
    IF ~r.ok THEN r
    ELSE IF \E k \in DOMAIN anchor : ~IS_ALPHA(anchor[k])
    THEN yaml_emitter_set_emitter_error(r,
             IF alias
             THEN "alias value must contain alphanumerical characters only"
             ELSE "anchor value must contain alphanumerical characters only")
    ELSE Ok([r.e EXCEPT !.anchor_data = [anchor |-> anchor, alias |-> alias]])

yaml_emitter_analyze_anchor(r, anchor, alias) ==
    IF ~r.ok THEN r
    ELSE IF anchor = <<>>
    THEN yaml_emitter_set_emitter_error(r,
             IF alias THEN "alias value must not be empty"
             ELSE "anchor value must not be empty")
    ELSE IF \E k \in DOMAIN anchor : ~IS_ALPHA(anchor[k])
    THEN yaml_emitter_set_emitter_error(r,
             IF alias
             THEN "alias value must contain alphanumerical characters only"
             ELSE "anchor value must contain alphanumerical characters only")
    ELSE Ok([r.e EXCEPT !.anchor_data = [anchor |-> anchor, alias |-> alias]])

\* strncmp(prefix, string, strlen(prefix)) == 0 for a prefix shorter than
\* the string.
Begins(string, prefix) ==
    /\ Len(prefix) < Len(string)
    /\ SubSeq(string, 1, Len(prefix)) = prefix

yaml_emitter_analyze_tag(r, tag) ==
    LET directives == r.e.tag_directives
        matching == {k \in DOMAIN directives :
                        Begins(tag, directives[k].prefix)}
        first == CHOOSE k \in matching : \A j \in matching : k <= j
    IN IF ~r.ok THEN r
       ELSE IF tag = <<>>
       THEN yaml_emitter_set_emitter_error(r, "tag value must not be empty")
       ELSE IF matching # {}
       THEN Ok([r.e EXCEPT !.tag_data =
                   [handle |-> directives[first].handle,
                    suffix |-> SubSeq(tag, Len(directives[first].prefix) + 1,
                                      Len(tag))]])
       ELSE Ok([r.e EXCEPT !.tag_data = [handle |-> NULL, suffix |-> tag]])

\* The loop of yaml_emitter_analyze_scalar from the character k of the
\* string, with its local variables in f.
RECURSIVE AnalyzeScalar(_, _, _)
AnalyzeScalar(string, k, f) ==
    IF k > Len(string) THEN f
    ELSE LET c == string[k]
             first == k = 1
             last == k = Len(string)
             both == IF first
                     THEN \/ c \in {"#", ",", "[", "]", "{", "}", "&", "*",
                                    "!", "|", ">", "'", "\"", "%", "@",
                                    "BACKTICK"}
                          \/ (c = "-" /\ f.followed_by_whitespace)
                     ELSE c = "#" /\ f.preceded_by_whitespace
             flow == IF first THEN c \in {"?", ":"}
                     ELSE c \in {",", "?", "[", "]", "{", "}", ":"}
             block == IF first
                      THEN c \in {"?", ":"} /\ f.followed_by_whitespace
                      ELSE c = ":" /\ f.followed_by_whitespace
         IN AnalyzeScalar(string, k + 1,
                [flow_indicators |-> f.flow_indicators \/ both \/ flow,
                 block_indicators |-> f.block_indicators \/ both \/ block,
                 special_characters |->
                     f.special_characters \/ ~IS_PRINTABLE(c),
                 line_breaks |-> f.line_breaks \/ IS_BREAK(c),
                 leading_space |-> f.leading_space \/ (IS_SPACE(c) /\ first),
                 trailing_space |-> f.trailing_space \/ (IS_SPACE(c) /\ last),
                 break_space |->
                     f.break_space \/ (IS_SPACE(c) /\ f.previous_break),
                 leading_break |-> f.leading_break \/ (IS_BREAK(c) /\ first),
                 trailing_break |-> f.trailing_break \/ (IS_BREAK(c) /\ last),
                 space_break |->
                     f.space_break \/ (IS_BREAK(c) /\ f.previous_space),
                 previous_space |-> IS_SPACE(c),
                 previous_break |-> ~IS_SPACE(c) /\ IS_BREAK(c),
                 preceded_by_whitespace |-> IS_BLANKZ(c),
                 followed_by_whitespace |->
                     IF last THEN f.followed_by_whitespace
                     ELSE IS_BLANKZ(Char(string, k + 2))])

yaml_emitter_analyze_scalar(r, value) ==
    LET marker == Len(value) >= 3
                    /\ SubSeq(value, 1, 3) \in {<<"-", "-", "-">>,
                                                <<".", ".", ".">>}
        f == AnalyzeScalar(value, 1,
                 [flow_indicators |-> marker, block_indicators |-> marker,
                  special_characters |-> FALSE, line_breaks |-> FALSE,
                  leading_space |-> FALSE, trailing_space |-> FALSE,
                  break_space |-> FALSE, leading_break |-> FALSE,
                  trailing_break |-> FALSE, space_break |-> FALSE,
                  previous_space |-> FALSE, previous_break |-> FALSE,
                  preceded_by_whitespace |-> TRUE,
                  followed_by_whitespace |-> IS_BLANKZ(Char(value, 2))])
        plain == ~(f.leading_space \/ f.leading_break \/ f.trailing_space
                   \/ f.trailing_break \/ f.break_space \/ f.space_break
                   \/ f.special_characters \/ f.line_breaks)
    IN IF ~r.ok THEN r
       ELSE IF value = <<>>
       THEN Ok([r.e EXCEPT !.scalar_data =
                   [@ EXCEPT !.value = value, !.multiline = FALSE,
                             !.flow_plain_allowed = FALSE,
                             !.block_plain_allowed = TRUE,
                             !.single_quoted_allowed = TRUE,
                             !.block_allowed = FALSE]])
       ELSE Ok([r.e EXCEPT !.scalar_data =
                   [@ EXCEPT !.value = value, !.multiline = f.line_breaks,
                             !.flow_plain_allowed =
                                 plain /\ ~f.flow_indicators,
                             !.block_plain_allowed =
                                 plain /\ ~f.block_indicators,
                             !.single_quoted_allowed =
                                 ~(f.break_space \/ f.space_break
                                   \/ f.special_characters),
                             !.block_allowed =
                                 ~(f.trailing_space \/ f.space_break
                                   \/ f.special_characters)]])

\* The analysis of the anchor and of the tag of a node.
AnalyzeNode(r, event, tagged) ==
    IF event.tag # NULL /\ tagged
    THEN yaml_emitter_analyze_tag(
             IF event.anchor # NULL
             THEN yaml_emitter_analyze_anchor(r, event.anchor, FALSE) ELSE r,
             event.tag)
    ELSE IF event.anchor # NULL
    THEN yaml_emitter_analyze_anchor(r, event.anchor, FALSE)
    ELSE r

yaml_emitter_analyze_event(e, event) ==
    LET r == Ok([e EXCEPT !.anchor_data.anchor = NULL,
                          !.tag_data = [handle |-> NULL, suffix |-> NULL],
                          !.scalar_data.value = NULL])
    IN CASE event.type = "ALIAS" ->
                yaml_emitter_analyze_anchor(r, event.anchor, TRUE)
         [] event.type = "SCALAR" ->
                yaml_emitter_analyze_scalar(
                    AnalyzeNode(r, event,
                                \/ e.canonical
                                \/ (~event.plain_implicit
                                    /\ ~event.quoted_implicit)),
                    event.value)
         [] event.type \in {"SEQUENCE_START", "MAPPING_START"} ->
                AnalyzeNode(r, event, e.canonical \/ ~event.implicit)
         [] OTHER -> r

(***************************************************************************)
(* The queue of events: buffer holds the events from head to tail, head    *)
(* and end are offsets from the start of the array.                        *)
(***************************************************************************)
QUEUE_EMPTY(queue) == queue.buffer = <<>>

\* ENQUEUE with _myyaml_queue_extend; memory tells whether the allocation
\* succeeds that a full array needs.
event_ENQUEUE(queue, value, memory) ==
    IF queue.head + Len(queue.buffer) # queue.end
    THEN [queue |-> [queue EXCEPT !.buffer = Append(@, value)], ok |-> TRUE]
    ELSE IF queue.head = 0
    THEN IF memory
         THEN [queue |-> [queue EXCEPT !.buffer = Append(@, value),
                                       !.end = @ * 2],
               ok |-> TRUE]
         ELSE [queue |-> queue, ok |-> FALSE]
    ELSE [queue |-> [queue EXCEPT !.buffer = Append(@, value), !.head = 0],
          ok |-> TRUE]

DEQUEUE(queue) == [queue EXCEPT !.buffer = Tail(@), !.head = @ + 1]

\* The loop of yaml_emitter_need_more_events over the events of the queue.
RECURSIVE Level(_, _)
Level(queue, level) ==
    IF queue = <<>> THEN TRUE
    ELSE LET next ==
                 IF Head(queue).type \in {"STREAM_START", "DOCUMENT_START",
                                          "SEQUENCE_START", "MAPPING_START"}
                 THEN level + 1
                 ELSE IF Head(queue).type \in {"STREAM_END", "DOCUMENT_END",
                                               "SEQUENCE_END", "MAPPING_END"}
                 THEN level - 1
                 ELSE level
         IN IF next = 0 THEN FALSE ELSE Level(Tail(queue), next)

\* A variant of yaml_emitter_need_more_events that never waits.
yaml_emitter_need_more_events_none(e) == QUEUE_EMPTY(e.events)

yaml_emitter_need_more_events(e) ==
    LET queue == e.events.buffer
        accumulate == CASE queue[1].type = "DOCUMENT_START" -> 1
                        [] queue[1].type = "SEQUENCE_START" -> 2
                        [] queue[1].type = "MAPPING_START" -> 3
                        [] OTHER -> 0
    IN IF QUEUE_EMPTY(e.events) THEN TRUE
       ELSE IF accumulate = 0 THEN FALSE
       ELSE IF Len(queue) > accumulate THEN FALSE
       ELSE Level(queue, 0)

yaml_emitter_append_tag_directive(r, value, allow_duplicates) ==
    IF ~r.ok THEN r
    ELSE IF \E k \in DOMAIN r.e.tag_directives :
                r.e.tag_directives[k].handle = value.handle
    THEN IF allow_duplicates THEN r
         ELSE yaml_emitter_set_emitter_error(r, "duplicate %TAG directive")
    ELSE Ok([r.e EXCEPT !.tag_directives = PUSH(@, value)])

yaml_emitter_increase_indent(r, flow, indentless) ==
    IF ~r.ok THEN r
    ELSE Ok([r.e EXCEPT !.indents = PUSH(@, r.e.indent),
                        !.indent = IF @ < 0
                                   THEN IF flow THEN r.e.best_indent ELSE 0
                                   ELSE IF ~indentless
                                   THEN @ + r.e.best_indent
                                   ELSE @])

(***************************************************************************)
(* The state machine of the emitter.                                       *)
(***************************************************************************)
INT_MAX == 2147483647

PushState(r, state) ==
    IF ~r.ok THEN r ELSE Ok([r.e EXCEPT !.states = PUSH(@, state)])

PopState(r) ==
    IF ~r.ok THEN r
    ELSE Ok([r.e EXCEPT !.state = Top(r.e.states), !.states = Pop(@)])

PopIndent(r) ==
    IF ~r.ok THEN r
    ELSE Ok([r.e EXCEPT !.indent = Top(r.e.indents), !.indents = Pop(@)])

State(r, state) == IF ~r.ok THEN r ELSE Ok([r.e EXCEPT !.state = state])

FlowLevel(r, n) ==
    IF ~r.ok THEN r ELSE Ok([r.e EXCEPT !.flow_level = @ + n])

yaml_emitter_emit_stream_start(e, event) ==
    LET encoding == IF e.encoding # "ANY" THEN e.encoding
                    ELSE IF event.encoding # "ANY" THEN event.encoding
                    ELSE "UTF8"
        best_indent == IF e.best_indent < 2 \/ e.best_indent > 9 THEN 2
                       ELSE e.best_indent
        best_width == IF e.best_width >= 0 /\ e.best_width <= best_indent * 2
                      THEN 80
                      ELSE IF e.best_width < 0 THEN INT_MAX
                      ELSE e.best_width
        started == [e EXCEPT !.open_ended = 0, !.encoding = encoding,
                             !.best_indent = best_indent,
                             !.best_width = best_width,
                             !.line_break = IF @ = "ANY" THEN "LN" ELSE @,
                             !.indent = -1, !.line = 0, !.column = 0,
                             !.whitespace = TRUE, !.indention = TRUE]
    IN IF event.type = "STREAM_START"
       THEN State(IF encoding # "UTF8"
                  THEN yaml_emitter_write_bom(Ok(started)) ELSE Ok(started),
                  "FIRST_DOCUMENT_START")
       ELSE yaml_emitter_set_emitter_error(Ok([e EXCEPT !.open_ended = 0]),
                                           "expected STREAM-START")

\* The first loop of yaml_emitter_emit_document_start.
RECURSIVE DocumentTagDirectives(_, _)
DocumentTagDirectives(r, tag_directives) ==
    IF ~r.ok \/ tag_directives = <<>> THEN r
    ELSE DocumentTagDirectives(
             yaml_emitter_append_tag_directive(
                 yaml_emitter_analyze_tag_directive(r, Head(tag_directives)),
                 Head(tag_directives), FALSE),
             Tail(tag_directives))

\* The loop of yaml_emitter_emit_document_start that writes the directives.
RECURSIVE WriteTagDirectives(_, _)
WriteTagDirectives(r, tag_directives) ==
    IF ~r.ok \/ tag_directives = <<>> THEN r
    ELSE WriteTagDirectives(
             yaml_emitter_write_indent(
                 yaml_emitter_write_tag_content(
                     yaml_emitter_write_tag_handle(
                         yaml_emitter_write_indicator(
                             r, <<"%", "T", "A", "G">>, TRUE, FALSE, FALSE),
                         Head(tag_directives).handle),
                     Head(tag_directives).prefix, TRUE)),
             Tail(tag_directives))

\* The part of yaml_emitter_emit_document_start that ends an open document
\* before the directives.
DocumentOpenEnded(r, event) ==
    IF ~r.ok THEN r
    ELSE OpenEnded(
             IF /\ event.version_directive # <<>> \/ event.tag_directives # <<>>
                /\ r.e.open_ended # 0
             THEN yaml_emitter_write_indent(
                      yaml_emitter_write_indicator(r, <<".", ".", ".">>, TRUE,
                                                   FALSE, FALSE))
             ELSE r,
             0)

\* The part that writes the %YAML directive.
DocumentVersion(r, event) ==
    IF event.version_directive = <<>> THEN r
    ELSE yaml_emitter_write_indent(
             yaml_emitter_write_indicator(
                 yaml_emitter_write_indicator(
                     r, <<"%", "Y", "A", "M", "L">>, TRUE, FALSE, FALSE),
                 IF event.version_directive[2] = 1 THEN <<"1", ".", "1">>
                 ELSE <<"1", ".", "2">>,
                 TRUE, FALSE, FALSE))

\* The part that writes the marker of the document.
DocumentMarker(r, implicit) ==
    IF ~r.ok \/ implicit THEN r
    ELSE IF r.e.canonical
    THEN yaml_emitter_write_indent(
             yaml_emitter_write_indicator(
                 yaml_emitter_write_indent(r), <<"-", "-", "-">>, TRUE, FALSE,
                 FALSE))
    ELSE yaml_emitter_write_indicator(
             yaml_emitter_write_indent(r), <<"-", "-", "-">>, TRUE, FALSE,
             FALSE)

yaml_emitter_emit_document_start(e, event, first) ==
    LET default_tag_directives ==
            << [handle |-> <<"!">>, prefix |-> <<"!">>],
               [handle |-> <<"!", "!">>,
                prefix |-> <<"t", "a", "g", ":", "y", "a", "m", "l", ".",
                             "o", "r", "g", ",", "2", "0", "0", "2", ":">>] >>
        implicit == /\ event.implicit
                    /\ first /\ ~e.canonical
                    /\ event.version_directive = <<>>
                    /\ event.tag_directives = <<>>
    IN IF event.type = "DOCUMENT_START"
       THEN OpenEnded(
                State(
                    DocumentMarker(
                        WriteTagDirectives(
                            DocumentVersion(
                                DocumentOpenEnded(
                                    yaml_emitter_append_tag_directive(
                                        yaml_emitter_append_tag_directive(
                                            DocumentTagDirectives(
                                                IF event.version_directive
                                                       # <<>>
                                                THEN yaml_emitter_analyze_version_directive(
                                                         Ok(e),
                                                         event.version_directive)
                                                ELSE Ok(e),
                                                event.tag_directives),
                                            default_tag_directives[1], TRUE),
                                        default_tag_directives[2], TRUE),
                                    event),
                                event),
                            event.tag_directives),
                        implicit),
                    "DOCUMENT_CONTENT"),
                0)
       ELSE IF event.type = "STREAM_END"
       THEN State(
                Flush(IF e.open_ended = 2
                      THEN yaml_emitter_write_indent(
                               OpenEnded(
                                   yaml_emitter_write_indicator(
                                       Ok(e), <<".", ".", ".">>, TRUE, FALSE,
                                       FALSE),
                                   0))
                      ELSE Ok(e)),
                "END")
       ELSE yaml_emitter_set_emitter_error(
                Ok(e), "expected DOCUMENT-START or STREAM-END")

(***************************************************************************)
(* The nodes.  The functions of the state machine that call one another    *)
(* are called by their names.                                              *)
(***************************************************************************)
yaml_emitter_check_empty_sequence(e) ==
    /\ Len(e.events.buffer) >= 2
    /\ e.events.buffer[1].type = "SEQUENCE_START"
    /\ e.events.buffer[2].type = "SEQUENCE_END"

yaml_emitter_check_empty_mapping(e) ==
    /\ Len(e.events.buffer) >= 2
    /\ e.events.buffer[1].type = "MAPPING_START"
    /\ e.events.buffer[2].type = "MAPPING_END"

yaml_emitter_check_simple_key(e) ==
    LET event == e.events.buffer[1]
        node == Length(e.anchor_data.anchor) + Length(e.tag_data.handle)
                + Length(e.tag_data.suffix)
    IN CASE event.type = "ALIAS" -> Length(e.anchor_data.anchor) <= 128
         [] event.type = "SCALAR" ->
                /\ ~e.scalar_data.multiline
                /\ node + Length(e.scalar_data.value) <= 128
         [] event.type = "SEQUENCE_START" ->
                yaml_emitter_check_empty_sequence(e) /\ node <= 128
         [] event.type = "MAPPING_START" ->
                yaml_emitter_check_empty_mapping(e) /\ node <= 128
         [] OTHER -> FALSE

yaml_emitter_select_scalar_style(r, event) ==
    LET e == r.e
        no_tag == e.tag_data.handle = NULL /\ e.tag_data.suffix = NULL
        style1 == IF e.canonical
                     \/ (e.simple_key_context /\ e.scalar_data.multiline)
                  THEN "DOUBLE_QUOTED"
                  ELSE IF event.style = "ANY" THEN "PLAIN"
                  ELSE event.style
        style2 == IF /\ style1 = "PLAIN"
                     /\ \/ (e.flow_level > 0
                            /\ ~e.scalar_data.flow_plain_allowed)
                        \/ (e.flow_level = 0
                            /\ ~e.scalar_data.block_plain_allowed)
                        \/ (Length(e.scalar_data.value) = 0
                            /\ (e.flow_level > 0 \/ e.simple_key_context))
                        \/ (no_tag /\ ~event.plain_implicit)
                  THEN "SINGLE_QUOTED"
                  ELSE style1
        style3 == IF style2 = "SINGLE_QUOTED"
                     /\ ~e.scalar_data.single_quoted_allowed
                  THEN "DOUBLE_QUOTED"
                  ELSE style2
        style == IF /\ style3 \in {"LITERAL", "FOLDED"}
                    /\ \/ ~e.scalar_data.block_allowed
                       \/ e.flow_level > 0
                       \/ e.simple_key_context
                 THEN "DOUBLE_QUOTED"
                 ELSE style3
    IN IF ~r.ok THEN r
       ELSE IF no_tag /\ ~event.plain_implicit /\ ~event.quoted_implicit
       THEN yaml_emitter_set_emitter_error(r,
                "neither tag nor implicit flags are specified")
       ELSE Ok([e EXCEPT !.tag_data.handle =
                             IF no_tag /\ ~event.quoted_implicit
                                /\ style # "PLAIN"
                             THEN <<"!">> ELSE @,
                         !.scalar_data.style = style])

yaml_emitter_process_anchor(r) ==
    IF ~r.ok \/ r.e.anchor_data.anchor = NULL THEN r
    ELSE yaml_emitter_write_anchor(
             yaml_emitter_write_indicator(
                 r, IF r.e.anchor_data.alias THEN <<"*">> ELSE <<"&">>,
                 TRUE, FALSE, FALSE),
             r.e.anchor_data.anchor)

yaml_emitter_process_tag(r) ==
    IF ~r.ok \/ (r.e.tag_data.handle = NULL /\ r.e.tag_data.suffix = NULL)
    THEN r
    ELSE IF r.e.tag_data.handle # NULL
    THEN IF r.e.tag_data.suffix # NULL
         THEN yaml_emitter_write_tag_content(
                  yaml_emitter_write_tag_handle(r, r.e.tag_data.handle),
                  r.e.tag_data.suffix, FALSE)
         ELSE yaml_emitter_write_tag_handle(r, r.e.tag_data.handle)
    ELSE yaml_emitter_write_indicator(
             yaml_emitter_write_tag_content(
                 yaml_emitter_write_indicator(r, <<"!", "<">>, TRUE, FALSE,
                                              FALSE),
                 r.e.tag_data.suffix, FALSE),
             <<">">>, FALSE, FALSE, FALSE)

yaml_emitter_process_scalar(r) ==
    IF ~r.ok THEN r
    ELSE CASE r.e.scalar_data.style = "PLAIN" ->
                  yaml_emitter_write_plain_scalar(
                      r, r.e.scalar_data.value, ~r.e.simple_key_context)
           [] r.e.scalar_data.style = "SINGLE_QUOTED" ->
                  yaml_emitter_write_single_quoted_scalar(
                      r, r.e.scalar_data.value, ~r.e.simple_key_context)
           [] r.e.scalar_data.style = "DOUBLE_QUOTED" ->
                  yaml_emitter_write_double_quoted_scalar(
                      r, r.e.scalar_data.value, ~r.e.simple_key_context)
           [] r.e.scalar_data.style = "LITERAL" ->
                  yaml_emitter_write_literal_scalar(r, r.e.scalar_data.value)
           [] r.e.scalar_data.style = "FOLDED" ->
                  yaml_emitter_write_folded_scalar(r, r.e.scalar_data.value)

yaml_emitter_emit_alias(r) ==
    PopState(IF r.ok /\ r.e.simple_key_context
             THEN PUT(yaml_emitter_process_anchor(r), " ")
             ELSE yaml_emitter_process_anchor(r))

yaml_emitter_emit_scalar(r, event) ==
    PopState(
        PopIndent(
            yaml_emitter_process_scalar(
                yaml_emitter_increase_indent(
                    yaml_emitter_process_tag(
                        yaml_emitter_process_anchor(
                            yaml_emitter_select_scalar_style(r, event))),
                    TRUE, FALSE))))

\* The end of yaml_emitter_emit_sequence_start and of
\* yaml_emitter_emit_mapping_start.
CollectionState(r, event, kind) ==
    IF ~r.ok THEN r
    ELSE State(r,
               IF \/ r.e.flow_level > 0
                  \/ r.e.canonical
                  \/ event.style = "FLOW"
                  \/ IF kind = "SEQUENCE"
                     THEN yaml_emitter_check_empty_sequence(r.e)
                     ELSE yaml_emitter_check_empty_mapping(r.e)
               THEN IF kind = "SEQUENCE" THEN "FLOW_SEQUENCE_FIRST_ITEM"
                    ELSE "FLOW_MAPPING_FIRST_KEY"
               ELSE IF kind = "SEQUENCE" THEN "BLOCK_SEQUENCE_FIRST_ITEM"
                    ELSE "BLOCK_MAPPING_FIRST_KEY")

yaml_emitter_emit_sequence_start(r, event) ==
    CollectionState(yaml_emitter_process_tag(yaml_emitter_process_anchor(r)),
               event, "SEQUENCE")

yaml_emitter_emit_mapping_start(r, event) ==
    CollectionState(yaml_emitter_process_tag(yaml_emitter_process_anchor(r)),
               event, "MAPPING")

yaml_emitter_emit_node(r0, event, root, sequence, mapping, simple_key) ==
    LET r == IF ~r0.ok THEN r0
             ELSE Ok([r0.e EXCEPT !.root_context = root,
                                  !.sequence_context = sequence,
                                  !.mapping_context = mapping,
                                  !.simple_key_context = simple_key])
    IN CASE event.type = "ALIAS" -> yaml_emitter_emit_alias(r)
         [] event.type = "SCALAR" -> yaml_emitter_emit_scalar(r, event)
         [] event.type = "SEQUENCE_START" ->
                yaml_emitter_emit_sequence_start(r, event)
         [] event.type = "MAPPING_START" ->
                yaml_emitter_emit_mapping_start(r, event)
         [] OTHER ->
                yaml_emitter_set_emitter_error(r,
                    "expected SCALAR, SEQUENCE-START, MAPPING-START, or ALIAS")

\* yaml_emitter_emit_node by its name.
Node(r, event, root, sequence, mapping, simple_key) ==
    Emit("yaml_emitter_emit_node",
         <<r, event, root, sequence, mapping, simple_key>>)

yaml_emitter_emit_document_content(e, event) ==
    Node(PushState(Ok(e), "DOCUMENT_END"), event, TRUE, FALSE, FALSE, FALSE)

yaml_emitter_emit_document_end(e, event) ==
    LET ended(r) ==
            IF ~r.ok THEN r
            ELSE Ok([r.e EXCEPT !.state = "DOCUMENT_START",
                                !.tag_directives = <<>>])
    IN IF event.type = "DOCUMENT_END"
       THEN ended(Flush(
                IF ~event.implicit
                THEN yaml_emitter_write_indent(
                         OpenEnded(
                             yaml_emitter_write_indicator(
                                 yaml_emitter_write_indent(Ok(e)),
                                 <<".", ".", ".">>, TRUE, FALSE, FALSE),
                             0))
                ELSE OpenEnded(yaml_emitter_write_indent(Ok(e)),
                               IF e.open_ended = 0 THEN 1 ELSE e.open_ended)))
       ELSE yaml_emitter_set_emitter_error(Ok(e), "expected DOCUMENT-END")

\* The indicator written when the condition holds.
Indicator(r, condition, indicator, need_whitespace, is_whitespace, is_indention) ==
    IF condition
    THEN yaml_emitter_write_indicator(r, indicator, need_whitespace,
                                      is_whitespace, is_indention)
    ELSE r

\* yaml_emitter_write_indent when the line is to be broken in a flow
\* collection.
FlowIndent(r) ==
    IF r.ok /\ (r.e.canonical \/ r.e.column > r.e.best_width)
    THEN yaml_emitter_write_indent(r) ELSE r

\* The beginning of a flow collection.
FlowFirst(r, first, indicator) ==
    IF first
    THEN FlowLevel(yaml_emitter_increase_indent(
                       yaml_emitter_write_indicator(r, indicator, TRUE, TRUE,
                                                    FALSE),
                       TRUE, FALSE),
                   1)
    ELSE r

\* The end of a flow collection.
FlowEnd(r, first, indicator) ==
    IF ~r.ok THEN r
    ELSE PopState(
             yaml_emitter_write_indicator(
                 IF r.e.canonical /\ ~first
                 THEN yaml_emitter_write_indent(
                          yaml_emitter_write_indicator(
                              PopIndent(FlowLevel(r, -1)), <<",">>, FALSE,
                              FALSE, FALSE))
                 ELSE PopIndent(FlowLevel(r, -1)),
                 indicator, FALSE, FALSE, FALSE))

yaml_emitter_emit_flow_sequence_item(e, event, first) ==
    IF event.type = "SEQUENCE_END"
    THEN FlowEnd(FlowFirst(Ok(e), first, <<"[">>), first, <<"]">>)
    ELSE Node(PushState(
                  FlowIndent(Indicator(FlowFirst(Ok(e), first, <<"[">>),
                                       ~first, <<",">>, FALSE, FALSE, FALSE)),
                  "FLOW_SEQUENCE_ITEM"),
              event, FALSE, TRUE, FALSE, FALSE)

\* The end of yaml_emitter_emit_flow_mapping_key and of
\* yaml_emitter_emit_block_mapping_key: the key is simple or not.  The
\* indicator ? is an indention in a block mapping.
Key(r, event, simple, block) ==
    IF ~r.ok THEN r
    ELSE IF simple
    THEN Node(PushState(r, IF block THEN "BLOCK_MAPPING_SIMPLE_VALUE"
                           ELSE "FLOW_MAPPING_SIMPLE_VALUE"),
              event, FALSE, FALSE, TRUE, TRUE)
    ELSE Node(PushState(
                  yaml_emitter_write_indicator(r, <<"?">>, TRUE, FALSE,
                                               block),
                  IF block THEN "BLOCK_MAPPING_VALUE"
                  ELSE "FLOW_MAPPING_VALUE"),
              event, FALSE, FALSE, TRUE, FALSE)

yaml_emitter_emit_flow_mapping_key(e, event, first) ==
    IF event.type = "MAPPING_END"
    THEN FlowEnd(FlowFirst(Ok(e), first, <<"{">>), first, <<"}">>)
    ELSE Key(FlowIndent(Indicator(FlowFirst(Ok(e), first, <<"{">>), ~first,
                                  <<",">>, FALSE, FALSE, FALSE)),
             event, ~e.canonical /\ yaml_emitter_check_simple_key(e), FALSE)

yaml_emitter_emit_flow_mapping_value(e, event, simple) ==
    Node(PushState(
             IF simple
             THEN yaml_emitter_write_indicator(Ok(e), <<":">>, FALSE, FALSE,
                                               FALSE)
             ELSE yaml_emitter_write_indicator(FlowIndent(Ok(e)), <<":">>,
                                               TRUE, FALSE, FALSE),
             "FLOW_MAPPING_KEY"),
         event, FALSE, FALSE, TRUE, FALSE)

yaml_emitter_emit_block_sequence_item(e, event, first) ==
    LET r == IF first
             THEN yaml_emitter_increase_indent(
                      Ok(e), FALSE, e.mapping_context /\ ~e.indention)
             ELSE Ok(e)
    IN IF event.type = "SEQUENCE_END" THEN PopState(PopIndent(r))
       ELSE Node(PushState(
                     yaml_emitter_write_indicator(
                         yaml_emitter_write_indent(r), <<"-">>, TRUE, FALSE,
                         TRUE),
                     "BLOCK_SEQUENCE_ITEM"),
                 event, FALSE, TRUE, FALSE, FALSE)

yaml_emitter_emit_block_mapping_key(e, event, first) ==
    LET r == IF first THEN yaml_emitter_increase_indent(Ok(e), FALSE, FALSE)
             ELSE Ok(e)
    IN IF event.type = "MAPPING_END" THEN PopState(PopIndent(r))
       ELSE Key(yaml_emitter_write_indent(r), event,
                yaml_emitter_check_simple_key(e), TRUE)

yaml_emitter_emit_block_mapping_value(e, event, simple) ==
    Node(PushState(
             IF simple
             THEN yaml_emitter_write_indicator(Ok(e), <<":">>, FALSE, FALSE,
                                               FALSE)
             ELSE yaml_emitter_write_indicator(
                      yaml_emitter_write_indent(Ok(e)), <<":">>, TRUE, FALSE,
                      TRUE),
             "BLOCK_MAPPING_KEY"),
         event, FALSE, FALSE, TRUE, FALSE)

\* A variant of yaml_emitter_state_machine that takes the events that follow
\* the end of the stream without an error.
yaml_emitter_state_machine_lenient(e, event) ==
    CASE e.state = "STREAM_START" -> yaml_emitter_emit_stream_start(e, event)
      [] e.state = "FIRST_DOCUMENT_START" ->
             yaml_emitter_emit_document_start(e, event, TRUE)
      [] e.state = "DOCUMENT_START" ->
             yaml_emitter_emit_document_start(e, event, FALSE)
      [] e.state = "DOCUMENT_CONTENT" ->
             yaml_emitter_emit_document_content(e, event)
      [] e.state = "DOCUMENT_END" -> yaml_emitter_emit_document_end(e, event)
      [] e.state \in {"FLOW_SEQUENCE_FIRST_ITEM", "FLOW_SEQUENCE_ITEM"} ->
             yaml_emitter_emit_flow_sequence_item(
                 e, event, e.state = "FLOW_SEQUENCE_FIRST_ITEM")
      [] e.state \in {"FLOW_MAPPING_FIRST_KEY", "FLOW_MAPPING_KEY"} ->
             yaml_emitter_emit_flow_mapping_key(
                 e, event, e.state = "FLOW_MAPPING_FIRST_KEY")
      [] e.state \in {"FLOW_MAPPING_SIMPLE_VALUE", "FLOW_MAPPING_VALUE"} ->
             yaml_emitter_emit_flow_mapping_value(
                 e, event, e.state = "FLOW_MAPPING_SIMPLE_VALUE")
      [] e.state \in {"BLOCK_SEQUENCE_FIRST_ITEM", "BLOCK_SEQUENCE_ITEM"} ->
             yaml_emitter_emit_block_sequence_item(
                 e, event, e.state = "BLOCK_SEQUENCE_FIRST_ITEM")
      [] e.state \in {"BLOCK_MAPPING_FIRST_KEY", "BLOCK_MAPPING_KEY"} ->
             yaml_emitter_emit_block_mapping_key(
                 e, event, e.state = "BLOCK_MAPPING_FIRST_KEY")
      [] e.state \in {"BLOCK_MAPPING_SIMPLE_VALUE", "BLOCK_MAPPING_VALUE"} ->
             yaml_emitter_emit_block_mapping_value(
                 e, event, e.state = "BLOCK_MAPPING_SIMPLE_VALUE")
      [] e.state = "END" -> Ok(e)

yaml_emitter_state_machine(e, event) ==
    CASE e.state = "STREAM_START" -> yaml_emitter_emit_stream_start(e, event)
      [] e.state = "FIRST_DOCUMENT_START" ->
             yaml_emitter_emit_document_start(e, event, TRUE)
      [] e.state = "DOCUMENT_START" ->
             yaml_emitter_emit_document_start(e, event, FALSE)
      [] e.state = "DOCUMENT_CONTENT" ->
             yaml_emitter_emit_document_content(e, event)
      [] e.state = "DOCUMENT_END" -> yaml_emitter_emit_document_end(e, event)
      [] e.state \in {"FLOW_SEQUENCE_FIRST_ITEM", "FLOW_SEQUENCE_ITEM"} ->
             yaml_emitter_emit_flow_sequence_item(
                 e, event, e.state = "FLOW_SEQUENCE_FIRST_ITEM")
      [] e.state \in {"FLOW_MAPPING_FIRST_KEY", "FLOW_MAPPING_KEY"} ->
             yaml_emitter_emit_flow_mapping_key(
                 e, event, e.state = "FLOW_MAPPING_FIRST_KEY")
      [] e.state \in {"FLOW_MAPPING_SIMPLE_VALUE", "FLOW_MAPPING_VALUE"} ->
             yaml_emitter_emit_flow_mapping_value(
                 e, event, e.state = "FLOW_MAPPING_SIMPLE_VALUE")
      [] e.state \in {"BLOCK_SEQUENCE_FIRST_ITEM", "BLOCK_SEQUENCE_ITEM"} ->
             yaml_emitter_emit_block_sequence_item(
                 e, event, e.state = "BLOCK_SEQUENCE_FIRST_ITEM")
      [] e.state \in {"BLOCK_MAPPING_FIRST_KEY", "BLOCK_MAPPING_KEY"} ->
             yaml_emitter_emit_block_mapping_key(
                 e, event, e.state = "BLOCK_MAPPING_FIRST_KEY")
      [] e.state \in {"BLOCK_MAPPING_SIMPLE_VALUE", "BLOCK_MAPPING_VALUE"} ->
             yaml_emitter_emit_block_mapping_value(
                 e, event, e.state = "BLOCK_MAPPING_SIMPLE_VALUE")
      [] e.state = "END" ->
             yaml_emitter_set_emitter_error(
                 Ok(e), "expected nothing after STREAM-END")

(***************************************************************************)
(* The public entry points of the emitter, as functions of the emitter.    *)
(* yaml_emitter_emit returns the emitter, the result and the events that   *)
(* it has handed to yaml_event_delete.                                     *)
(***************************************************************************)
\* The emitter after yaml_emitter_initialize; anchors is the empty sequence
\* for a NULL pointer.
yaml_emitter_initialize ==
    [error |-> "NO", problem |-> "NULL", write_handler |-> NULL,
     output |-> [buffer |-> <<>>, size |-> 0, size_written |-> 0],
     buffer |-> <<>>, raw_buffer |-> <<>>, encoding |-> "ANY",
     canonical |-> FALSE, best_indent |-> 0, best_width |-> 0,
     unicode |-> FALSE, line_break |-> "ANY", states |-> <<>>,
     state |-> "STREAM_START",
     events |-> [buffer |-> <<>>, head |-> 0, end |-> INITIAL_QUEUE_SIZE],
     indents |-> <<>>, tag_directives |-> <<>>, indent |-> 0,
     flow_level |-> 0, root_context |-> FALSE, sequence_context |-> FALSE,
     mapping_context |-> FALSE, simple_key_context |-> FALSE, line |-> 0,
     column |-> 0, whitespace |-> FALSE, indention |-> FALSE,
     open_ended |-> 0, anchor_data |-> [anchor |-> NULL, alias |-> FALSE],
     tag_data |-> [handle |-> NULL, suffix |-> NULL],
     scalar_data |-> [value |-> NULL, multiline |-> FALSE,
                      flow_plain_allowed |-> FALSE,
                      block_plain_allowed |-> FALSE,
                      single_quoted_allowed |-> FALSE,
                      block_allowed |-> FALSE, style |-> "ANY"],
     opened |-> FALSE, closed |-> FALSE, anchors |-> <<>>,
     last_anchor_id |-> 0, document |-> NULL]

yaml_emitter_set_output_string(e, size) ==
    [e EXCEPT !.write_handler = "yaml_string_write_handler",
              !.output = [buffer |-> <<>>, size |-> size, size_written |-> 0]]

yaml_emitter_set_canonical(e, canonical) == [e EXCEPT !.canonical = canonical]

yaml_emitter_set_width(e, width) ==
    [e EXCEPT !.best_width = IF width >= 0 THEN width ELSE -1]

\* yaml_emitter_state_machine after yaml_emitter_analyze_event.
Machine(r, event) ==
    IF ~r.ok THEN r ELSE Emit("yaml_emitter_state_machine", <<r.e, event>>)

RECURSIVE Events(_, _)
RECURSIVE Dequeued(_, _)

\* The loop of yaml_emitter_emit.
Events(e, deleted) ==
    IF yaml_emitter_need_more_events(e)
    THEN [e |-> e, result |-> 1, deleted |-> deleted]
    ELSE Dequeued(Machine(yaml_emitter_analyze_event(e, e.events.buffer[1]),
                          e.events.buffer[1]),
                  deleted)

Dequeued(r, deleted) ==
    IF ~r.ok THEN [e |-> r.e, result |-> 0, deleted |-> deleted]
    ELSE Events([r.e EXCEPT !.events = DEQUEUE(@)],
                Append(deleted, r.e.events.buffer[1]))

\* A variant of yaml_emitter_emit that leaves the event to the caller when
\* the queue cannot take it.
yaml_emitter_emit_left(e, event, memory) ==
    IF ~event_ENQUEUE(e.events, event, memory).ok
    THEN [e |-> [e EXCEPT !.error = "MEMORY"], result |-> 0,
          deleted |-> <<>>]
    ELSE Events([e EXCEPT !.events = event_ENQUEUE(e.events, event, memory).queue],
                <<>>)

yaml_emitter_emit(e, event, memory) ==
    IF ~event_ENQUEUE(e.events, event, memory).ok
    THEN [e |-> [e EXCEPT !.error = "MEMORY"], result |-> 0,
          deleted |-> <<event>>]
    ELSE Events([e EXCEPT !.events = event_ENQUEUE(e.events, event, memory).queue],
                <<>>)

\* yaml_emitter_delete: the events that it hands to yaml_event_delete; the
\* emitter is all zeros afterwards.
yaml_emitter_delete(e) == e.events.buffer

(***************************************************************************)
(* The dumper: a document in, events out.  Each function takes and returns *)
(* the emitter, ok and the events handed to yaml_emitter_emit so far.      *)
(***************************************************************************)
\* An event of the emitter: the event with the encoding of a STREAM-START
\* event and with data, the number of the allocation that holds what the
\* event owns (0 for an event of the dumper).
EmitterEvent(event, encoding, data) ==
    [x \in DOMAIN event \cup {"encoding", "data"} |->
        IF x = "encoding" THEN encoding
        ELSE IF x = "data" THEN data
        ELSE event[x]]

Own(event) == EmitterEvent(event, "ANY", 0)

\* yaml_emitter_emit in the dumper.
Dumped(d, event) ==
    LET returned(x) ==
            [e |-> x.e, ok |-> x.result = 1,
             events |-> Append(d.events, event), memory |-> d.memory]
    IN IF ~d.ok THEN d
       ELSE returned(Emit("yaml_emitter_emit", <<d.e, event, d.memory>>))

yaml_emitter_open(d) ==
    LET opened(x) ==
            IF ~x.ok THEN x ELSE [x EXCEPT !.e.opened = TRUE]
    IN opened(Dumped(d, Own(EVENT_INIT("STREAM_START", Mark0, Mark0))))

yaml_emitter_close(d) ==
    LET closed(x) ==
            IF ~x.ok THEN x ELSE [x EXCEPT !.e.closed = TRUE]
    IN IF ~d.ok \/ d.e.closed THEN d
       ELSE closed(Dumped(d, Own(EVENT_INIT("STREAM_END", Mark0, Mark0))))

yaml_emitter_delete_document_and_anchors(e) ==
    IF Len(e.anchors) = 0 THEN [e EXCEPT !.document = NULL]
    ELSE [e EXCEPT !.anchors = <<>>, !.last_anchor_id = 0, !.document = NULL]

\* The items of a sequence node and the keys and values of a mapping node,
\* in the order of the loops.
RECURSIVE Children(_)
Children(node) ==
    IF node.type = "SEQUENCE" THEN node.items
    ELSE IF node.type = "MAPPING" /\ node.pairs # <<>>
    THEN <<node.pairs[1].key, node.pairs[1].value>>
         \o Children([node EXCEPT !.pairs = Tail(@)])
    ELSE <<>>

RECURSIVE yaml_emitter_anchor_node(_, _)
RECURSIVE AnchorNodes(_, _)

\* yaml_emitter_anchor_node for each of the nodes.
AnchorNodes(e, nodes) ==
    IF nodes = <<>> THEN e
    ELSE AnchorNodes(yaml_emitter_anchor_node(e, Head(nodes)), Tail(nodes))

\* A variant of yaml_emitter_anchor_node that gives an anchor at the third
\* reference.
yaml_emitter_anchor_node_third(e, index) ==
    LET references == e.anchors[index].references + 1
        counted == [e EXCEPT !.anchors[index].references = references]
    IN IF references = 1
       THEN AnchorNodes(counted, Children(e.document.nodes[index]))
       ELSE IF references = 3
       THEN [counted EXCEPT !.anchors[index].anchor = e.last_anchor_id + 1,
                            !.last_anchor_id = @ + 1]
       ELSE counted

yaml_emitter_anchor_node(e, index) ==
    LET references == e.anchors[index].references + 1
        counted == [e EXCEPT !.anchors[index].references = references]
    IN IF references = 1
       THEN AnchorNodes(counted, Children(e.document.nodes[index]))
       ELSE IF references = 2
       THEN [counted EXCEPT !.anchors[index].anchor = e.last_anchor_id + 1,
                            !.last_anchor_id = @ + 1]
       ELSE counted

\* The digits of a number, as sprintf writes them for %d.
RECURSIVE Digits(_)
Digits(n) ==
    IF n < 10 THEN <<BYTE[48 + n + 1]>>
    ELSE Append(Digits(n \div 10), BYTE[48 + (n % 10) + 1])

\* sprintf with the template id%03d.
yaml_emitter_generate_anchor(anchor_id) ==
    <<"i", "d">>
    \o (IF anchor_id < 10 THEN <<"0", "0">>
        ELSE IF anchor_id < 100 THEN <<"0">>
        ELSE <<>>)
    \o Digits(anchor_id)

RECURSIVE yaml_emitter_dump_node(_, _)
RECURSIVE DumpNodes(_, _)

\* yaml_emitter_dump_node for each of the nodes.
DumpNodes(d, nodes) ==
    IF ~d.ok \/ nodes = <<>> THEN d
    ELSE DumpNodes(yaml_emitter_dump_node(d, Head(nodes)), Tail(nodes))

yaml_emitter_dump_alias(d, anchor) ==
    Dumped(d, Own([EVENT_INIT("ALIAS", Mark0, Mark0)
                      EXCEPT !.anchor = anchor]))

yaml_emitter_dump_scalar(d, node, anchor) ==
    Dumped(d, Own(SCALAR_EVENT_INIT(anchor, node.tag, node.value,
                                    node.tag = YAML_DEFAULT_TAG("SCALAR"),
                                    node.tag = YAML_DEFAULT_TAG("SCALAR"),
                                    node.style, Mark0, Mark0)))

\* yaml_emitter_dump_sequence and yaml_emitter_dump_mapping.
yaml_emitter_dump_collection(d, node, anchor) ==
    Dumped(DumpNodes(Dumped(d, Own([EVENT_INIT(IF node.type = "SEQUENCE"
                                               THEN "SEQUENCE_START"
                                               ELSE "MAPPING_START",
                                               Mark0, Mark0)
                                       EXCEPT !.anchor = anchor,
                                              !.tag = node.tag,
                                              !.implicit =
                                                  node.tag
                                                  = YAML_DEFAULT_TAG(node.type),
                                              !.style = node.style])),
                     Children(node)),
           Own(EVENT_INIT(IF node.type = "SEQUENCE" THEN "SEQUENCE_END"
                          ELSE "MAPPING_END",
                          Mark0, Mark0)))

yaml_emitter_dump_node(d, index) ==
    LET node == d.e.document.nodes[index]
        anchor_id == d.e.anchors[index].anchor
        anchor == IF anchor_id # 0
                  THEN yaml_emitter_generate_anchor(anchor_id) ELSE NULL
    IN IF ~d.ok THEN d
       ELSE IF d.e.anchors[index].serialized
       THEN yaml_emitter_dump_alias(d, anchor)
       ELSE IF node.type = "SCALAR"
       THEN yaml_emitter_dump_scalar(
                [d EXCEPT !.e.anchors[index].serialized = TRUE], node, anchor)
       ELSE yaml_emitter_dump_collection(
                [d EXCEPT !.e.anchors[index].serialized = TRUE], node, anchor)

\* yaml_emitter_anchor_node in the dumper.
Anchored(d, index) ==
    IF ~d.ok THEN d ELSE [d EXCEPT !.e = yaml_emitter_anchor_node(d.e, index)]

\* yaml_emitter_dump from the allocation of the anchors on.
DumpDocument(d, doc) ==
    IF ~d.ok THEN d
    ELSE Dumped(
             yaml_emitter_dump_node(
                 Anchored(
                     Dumped([d EXCEPT !.e.anchors =
                                          [k \in DOMAIN doc.nodes |->
                                              [references |-> 0, anchor |-> 0,
                                               serialized |-> FALSE]]],
                            Own([EVENT_INIT("DOCUMENT_START", Mark0, Mark0)
                                    EXCEPT !.version_directive =
                                               doc.version_directive,
                                           !.tag_directives =
                                               doc.tag_directives,
                                           !.implicit = doc.start_implicit])),
                     1),
                 1),
             Own([EVENT_INIT("DOCUMENT_END", Mark0, Mark0)
                     EXCEPT !.implicit = doc.end_implicit]))

yaml_emitter_dump(e, doc, memory) ==
    LET opened(d) == IF d.e.opened THEN d ELSE yaml_emitter_open(d)
        returned(d) ==
            [e |-> yaml_emitter_delete_document_and_anchors(d.e),
             result |-> IF d.ok THEN 1 ELSE 0, events |-> d.events]
    IN returned(IF Len(doc.nodes) = 0
                THEN yaml_emitter_close(
                         opened([e |-> [e EXCEPT !.document = doc],
                                 ok |-> TRUE, events |-> <<>>,
                                 memory |-> memory]))
                ELSE DumpDocument(
                         opened([e |-> [e EXCEPT !.document = doc],
                                 ok |-> TRUE, events |-> <<>>,
                                 memory |-> memory]),
                         doc))

Emit(function, args) ==
    CASE function = "yaml_emitter_flush" -> yaml_emitter_flush(args[1])
      [] function = "yaml_emitter_emit_node" ->
             yaml_emitter_emit_node(args[1], args[2], args[3], args[4],
                                    args[5], args[6])
      [] function = "yaml_emitter_state_machine" ->
             yaml_emitter_state_machine(args[1], args[2])
      [] function = "yaml_emitter_emit" ->
             yaml_emitter_emit(args[1], args[2], args[3])
      [] function = "yaml_emitter_dump" ->
             yaml_emitter_dump(args[1], args[2], args[3])

(***************************************************************************)
(* The application of the emitter.  It makes an emitter that writes to a   *)
(* string, hands its events to yaml_emitter_emit in order, may flush, and  *)
(* deletes the emitter.  Each event owns one allocation, numbered by data; *)
(* released counts the calls of yaml_event_delete on each.                 *)
(***************************************************************************)
STREAM_START_EVENT_INIT(encoding) ==
    EmitterEvent(EVENT_INIT("STREAM_START", Mark0, Mark0), encoding, 0)

STREAM_END_EVENT_INIT == Own(EVENT_INIT("STREAM_END", Mark0, Mark0))

DOCUMENT_START_EVENT_INIT(version_directive, tag_directives, implicit) ==
    Own([EVENT_INIT("DOCUMENT_START", Mark0, Mark0)
            EXCEPT !.version_directive = version_directive,
                   !.tag_directives = tag_directives,
                   !.implicit = implicit])

DOCUMENT_END_EVENT_INIT(implicit) ==
    Own([EVENT_INIT("DOCUMENT_END", Mark0, Mark0) EXCEPT !.implicit = implicit])

ALIAS_EVENT_INIT(anchor) ==
    Own([EVENT_INIT("ALIAS", Mark0, Mark0) EXCEPT !.anchor = anchor])

\* SEQUENCE_START_EVENT_INIT and MAPPING_START_EVENT_INIT.
COLLECTION_START_EVENT_INIT(type, anchor, tag, implicit, style) ==
    Own([EVENT_INIT(type, Mark0, Mark0)
            EXCEPT !.anchor = anchor, !.tag = tag, !.implicit = implicit,
                   !.style = style])

\* The events of the application, each with its allocation.
Allocate(script) == [k \in DOMAIN script |-> [script[k] EXCEPT !.data = k]]

Application(script) ==
    [events |-> Allocate(script), emitted |-> 0,
     released |-> [k \in DOMAIN script |-> 0], emitter |-> "none"]

\* yaml_event_delete on each of the events.
Released(released, deleted) ==
    [k \in DOMAIN released |->
        released[k] + Cardinality({i \in DOMAIN deleted : deleted[i].data = k})]

\* The emitter after yaml_emitter_delete; output keeps the buffer and the
\* count of the application, which the emitter no longer points to.
Deleted(e) ==
    [yaml_emitter_initialize EXCEPT !.events.end = 0, !.output = e.output]

MaxEvents == 4

OutputSizes == {0, 6, 64}

InitEmitter(scripts) ==
    /\ MAX_NESTING_LEVEL = 1000
    /\ emitter = NULL
    /\ application \in {Application(script) : script \in scripts}
    /\ parser = yaml_parser_initialize
    /\ api = "emit"
    /\ pc = "idle"
    /\ call = NoCall
    /\ events = <<>>
    /\ loader = <<>>
    /\ document = NO_DOCUMENT

EmitterInitialize ==
    /\ application.emitter = "none"
    /\ \E size \in OutputSizes, canonical \in BOOLEAN :
           emitter' = yaml_emitter_set_canonical(
                          yaml_emitter_set_output_string(
                              yaml_emitter_initialize, size),
                          canonical)
    /\ application' = [application EXCEPT !.emitter = "made"]
    /\ UNCHANGED <<MAX_NESTING_LEVEL, parser, api, pc, call, events, loader,
                   document>>

EmitterEmit ==
    /\ application.emitter = "made"
    /\ pc = "idle"
    /\ application.emitted < Len(application.events)
    /\ \E memory \in BOOLEAN :
           LET event == application.events[application.emitted + 1]
               returned(r) ==
                   /\ emitter' = r.e
                   /\ call' = [op |-> "emit", result |-> r.result,
                               token |-> NO_TOKEN, event |-> event,
                               queued |-> Len(emitter.events.buffer),
                               enqueued |->
                                   event_ENQUEUE(emitter.events, event,
                                                 memory).ok,
                               written |->
                                   SubSeq(r.e.buffer, Len(emitter.buffer) + 1,
                                          Len(r.e.buffer)),
                               deleted |-> r.deleted]
                   /\ application' =
                          [application EXCEPT
                              !.emitted = @ + 1,
                              !.released = Released(@, r.deleted)]
           IN returned(Emit("yaml_emitter_emit", <<emitter, event, memory>>))
    /\ UNCHANGED <<MAX_NESTING_LEVEL, parser, api, pc, events, loader,
                   document>>

\* yaml_emitter_flush called by the application, which does not flush
\* again after a write has failed; the function asserts that the encoding is
\* set.
EmitterFlush ==
    /\ application.emitter = "made"
    /\ pc = "idle"
    /\ emitter.error # "WRITER"
    /\ \E ndebug \in BOOLEAN :
           IF emitter.encoding = "ANY" /\ ~ndebug
           THEN /\ pc' = "aborted"
                /\ UNCHANGED <<emitter, call>>
           ELSE LET returned(r) ==
                        /\ emitter' = r.e
                        /\ call' = [op |-> "flush",
                                    result |-> IF r.ok THEN 1 ELSE 0,
                                    token |-> NO_TOKEN, event |-> NO_EVENT,
                                    deleted |-> <<>>]
                IN /\ returned(yaml_emitter_flush(emitter))
                   /\ UNCHANGED pc
    /\ UNCHANGED <<MAX_NESTING_LEVEL, parser, api, events, loader, document,
                   application>>

EmitterDelete ==
    /\ application.emitter = "made"
    /\ pc = "idle"
    /\ emitter' = Deleted(emitter)
    /\ call' = [op |-> "delete", result |-> 1, token |-> NO_TOKEN,
                event |-> NO_EVENT, deleted |-> yaml_emitter_delete(emitter)]
    /\ application' =
           [application EXCEPT
               !.emitter = "deleted",
               !.released = Released(@, yaml_emitter_delete(emitter))]
    /\ UNCHANGED <<MAX_NESTING_LEVEL, parser, api, pc, events, loader,
                   document>>

NextEmit == EmitterInitialize \/ EmitterEmit \/ EmitterFlush \/ EmitterDelete

PlainScalar ==
    Own(SCALAR_EVENT_INIT(NULL, NULL, <<"a">>, TRUE, FALSE, "ANY", Mark0,
                          Mark0))

\* The events of the streams: a plain scalar, block collections and
\* their ends.
EmitPieces ==
    <<<<PlainScalar>>,
      <<COLLECTION_START_EVENT_INIT("SEQUENCE_START", NULL, NULL, TRUE,
                                    "ANY")>>,
      <<Own(EVENT_INIT("SEQUENCE_END", Mark0, Mark0))>>,
      <<COLLECTION_START_EVENT_INIT("MAPPING_START", NULL, NULL, TRUE,
                                    "ANY")>>,
      <<Own(EVENT_INIT("MAPPING_END", Mark0, Mark0))>>>>

\* More events than the queue holds at first.
Fill ==
    [k \in 1..INITIAL_QUEUE_SIZE + 1 |->
        PlainScalar]

EmitScripts ==
    {<<STREAM_START_EVENT_INIT("UTF8"),
       DOCUMENT_START_EVENT_INIT(<<>>, <<>>, TRUE)>> \o script :
         script \in Inputs(EmitPieces, MaxEvents)}
    \cup {<<STREAM_START_EVENT_INIT("UTF8"),
            DOCUMENT_START_EVENT_INIT(<<>>, <<>>, TRUE),
            PlainScalar,
            DOCUMENT_END_EVENT_INIT(TRUE), STREAM_END_EVENT_INIT>>,
          <<STREAM_START_EVENT_INIT("UTF16LE"),
            DOCUMENT_START_EVENT_INIT(<<>>, <<>>, FALSE),
            PlainScalar,
            DOCUMENT_END_EVENT_INIT(FALSE), STREAM_END_EVENT_INIT>>,
          Fill}

InitEmit == InitEmitter(EmitScripts)

SpecEmit == InitEmit /\ [][NextEmit]_vars

\* The streams with one node that carries an anchor and a tag, under the tag
\* directives of the document.
TagDirectiveLists ==
    {<<>>,
     <<[handle |-> <<"!", "a", "!">>, prefix |-> <<"x">>],
       [handle |-> <<"!", "b", "!">>, prefix |-> <<"x", "y">>]>>,
     <<[handle |-> <<"!", "b", "!">>, prefix |-> <<"x", "y">>],
       [handle |-> <<"!", "a", "!">>, prefix |-> <<"x">>]>>}

NodeAnchors == {NULL, <<>>, <<"a">>}

NodeTags == {NULL, <<>>, <<"x", "y", "z">>, <<"x">>, <<"!", "l">>, <<"w">>}

TaggedScripts ==
    UNION {{<<STREAM_START_EVENT_INIT("UTF8"),
              DOCUMENT_START_EVENT_INIT(<<>>, tag_directives, TRUE),
              Own(SCALAR_EVENT_INIT(anchor, tag, <<"v">>, plain_implicit,
                                    quoted_implicit, "ANY", Mark0, Mark0)),
              DOCUMENT_END_EVENT_INIT(TRUE), STREAM_END_EVENT_INIT>>,
            <<STREAM_START_EVENT_INIT("UTF8"),
              DOCUMENT_START_EVENT_INIT(<<>>, tag_directives, TRUE),
              ALIAS_EVENT_INIT(anchor),
              DOCUMENT_END_EVENT_INIT(TRUE)>>,
            <<STREAM_START_EVENT_INIT("UTF8"),
              DOCUMENT_START_EVENT_INIT(<<>>, tag_directives, TRUE),
              COLLECTION_START_EVENT_INIT("SEQUENCE_START", anchor, tag,
                                          plain_implicit, "ANY"),
              PlainScalar,
              Own(EVENT_INIT("SEQUENCE_END", Mark0, Mark0)),
              DOCUMENT_END_EVENT_INIT(TRUE)>>,
            <<STREAM_START_EVENT_INIT("UTF8"),
              DOCUMENT_START_EVENT_INIT(<<>>, tag_directives, TRUE),
              COLLECTION_START_EVENT_INIT("MAPPING_START", anchor, tag,
                                          plain_implicit, "ANY"),
              PlainScalar, PlainScalar,
              Own(EVENT_INIT("MAPPING_END", Mark0, Mark0)),
              DOCUMENT_END_EVENT_INIT(TRUE)>>} :
               tag_directives \in TagDirectiveLists, anchor \in NodeAnchors,
               tag \in NodeTags, plain_implicit \in BOOLEAN,
               quoted_implicit \in BOOLEAN}

InitTagged == InitEmitter(TaggedScripts)

SpecTagged == InitTagged /\ [][NextEmit]_vars

(***************************************************************************)
(* The application of the dumper: it loads the documents of an input and   *)
(* hands each to yaml_emitter_dump, which deletes the document, or it      *)
(* hands over one document that it has built with the document API.        *)
(***************************************************************************)
\* The nodes that yaml_emitter_anchor_node reaches from the root, and whether
\* it meets an id that is no index of the arena: it then reads and writes
\* anchors[index - 1] and nodes.start[index - 1] outside their memory.
RECURSIVE Reached(_, _)
Reached(doc, seen) ==
    LET further ==
            seen \cup {id \in DOMAIN doc.nodes :
                          \E n \in seen :
                              \E i \in DOMAIN Children(doc.nodes[n]) :
                                  Children(doc.nodes[n])[i] = id}
    IN IF further = seen THEN seen ELSE Reached(doc, further)

OutOfArena(doc) ==
    /\ doc.nodes # <<>>
    /\ \E n \in Reached(doc, {1}) :
           \E i \in DOMAIN Children(doc.nodes[n]) :
               Children(doc.nodes[n])[i] \notin DOMAIN doc.nodes

\* undefined is what the build yields for a document that holds an id
\* outside the arena: the process ends, or the call returns.  The
\* application dumps each document it loads, or the one document it built.
EmitterDump ==
    /\ application.emitter = "made"
    /\ pc = "idle"
    /\ \/ call.op = "load" /\ call.result = 1
       \/ api = "document"
    /\ LET returned(r) ==
               /\ emitter' = r.e
               /\ call' = [op |-> "dump", result |-> r.result,
                           token |-> NO_TOKEN, event |-> NO_EVENT,
                           events |-> r.events, document |-> document]
               /\ pc' = IF r.result = ABORT THEN "aborted"
                        ELSE IF api = "document" THEN "dumped" ELSE pc
       IN IF OutOfArena(document)
          THEN \E undefined \in {ABORT, 0, 1} :
                   returned([e |-> emitter, result |-> undefined,
                             events |-> <<>>])
          ELSE returned(Emit("yaml_emitter_dump", <<emitter, document, TRUE>>))
    /\ document' = NO_DOCUMENT
    /\ UNCHANGED <<MAX_NESTING_LEVEL, parser, api, events, loader,
                   application>>

\* Documents with nodes that are reached once, twice and three times, with a
\* node that holds itself, and a stream of two documents.
DumpInputs ==
    { <<"x">>,
      <<"[", "a", ",", " ", "b", "]">>,
      <<"[", "&", "a", " ", "x", ",", " ", "*", "a", "]">>,
      <<"[", "&", "a", " ", "[", "b", "]", ",", " ", "*", "a", ",", " ",
        "*", "a", "]">>,
      <<"{", "&", "k", " ", "a", ":", " ", "*", "k", "}">>,
      <<"&", "a", " ", "[", "*", "a", "]">>,
      <<"[", "&", "a", " ", "x", ",", " ", "&", "b", " ", "y", ",", " ",
        "*", "b", ",", " ", "*", "a", "]">>,
      <<"-", "-", "-", " ", "a", "\n", "-", "-", "-", " ", "[", "&", "b",
        " ", "c", ",", " ", "*", "b", "]", "\n">> }

InitDump == Start(DumpInputs) /\ api = "load"

NextDump == ParserLoad \/ LoadNodes \/ EmitterInitialize \/ EmitterDump

SpecDump == InitDump /\ [][NextDump]_vars

(***************************************************************************)
(* Flow collections: an application takes the tokens of an input one by    *)
(* one with yaml_parser_scan and keeps them.  The inputs mix the openers   *)
(* and closers of flow collections, matched or not, with block entries,    *)
(* keys and document markers.                                              *)
(***************************************************************************)
MaxFlowPieces == 4

FlowPieces ==
    << <<"[">>, <<"{">>, <<"]">>, <<"}">>, <<"-", " ">>, <<"x">>,
       <<":", " ">>, <<"\n">>, <<"\n", "-", "-", "-", "\n">> >>

InitFlow == Start(Inputs(FlowPieces, MaxFlowPieces)) /\ api = "scan"

\* yaml_parser_scan, and the token it delivers kept by the application.
TokenScan ==
    LET returned(r) ==
            /\ parser' = r.p
            /\ call' = Call("scan", r.result, r.token, NO_EVENT)
            /\ events' = Delivered(events, <<r.token>>)
    IN /\ pc = "idle"
       /\ api = "scan"
       /\ returned(Invoke("yaml_parser_scan", <<parser>>))
       /\ UNCHANGED <<application, emitter, MAX_NESTING_LEVEL, api, pc,
                      loader, document>>

SpecFlow == InitFlow /\ [][TokenScan]_vars

(***************************************************************************)
(* Mappings: an application takes the events of an input one by one with   *)
(* yaml_parser_parse.  The inputs are block and flow mappings with keys    *)
(* and values that are present or missing.                                 *)
(***************************************************************************)
MaxMapPieces == 4

MapPieces ==
    << <<"{">>, <<"}">>, <<"?", " ">>, <<":", " ">>, <<"x">>, <<",">>,
       <<"\n">>, <<"[">>, <<"]">>, <<"-", " ">> >>

InitMap == Start(Inputs(MapPieces, MaxMapPieces)) /\ api = "parse"

SpecMap == InitMap /\ [][ParserParse]_vars

(***************************************************************************)
(* The scope of %TAG directives: the inputs are streams of documents, each *)
(* with or without a %TAG directive, a tagged scalar, and with or without  *)
(* a document end marker; the events are taken with yaml_parser_parse.     *)
(***************************************************************************)
MaxDocuments == 2

ScopeDocuments ==
    {directive \o <<"-", "-", "-", " ">> \o tag \o <<"x", "\n">> \o end :
        directive \in {<<>>,
                       <<"%", "T", "A", "G", " ", "!", "e", "!", " ", "q",
                         "\n">>,
                       <<"%", "T", "A", "G", " ", "!", " ", "p", "\n">>,
                       <<"%", "T", "A", "G", " ", "!", "!", " ", "p", "\n">>},
        tag \in {<<"!", "e", "!", "s", " ">>, <<"!", "s", " ">>,
                 <<"!", "!", "s", " ">>},
        end \in {<<>>, <<".", ".", ".", "\n">>}}

RECURSIVE Streams(_)
Streams(n) ==
    IF n = 0 THEN {<<>>}
    ELSE Streams(n - 1)
         \cup {s \o d : s \in Streams(n - 1), d \in ScopeDocuments}

InitScope == Start(Streams(MaxDocuments)) /\ api = "parse"

SpecScope == InitScope /\ [][ParserParse]_vars

(***************************************************************************)
(* The nesting limit during a parse: the parse begins under the limit the  *)
(* library starts with, and yaml_set_max_nest_level is called between two  *)
(* calls of yaml_parser_parse, by the owner of this parser or of another.  *)
(***************************************************************************)
SetMaxNestLevelMidStream ==
    /\ call # NoCall
    /\ pc = "idle"
    /\ \E max \in 0..MaxLevel : MAX_NESTING_LEVEL' = max
    /\ UNCHANGED <<parser, api, pc, call, events, loader, document, emitter,
                   application>>

NextLimit == SetMaxNestLevelMidStream \/ ParserParse

SpecLimit == InitNest /\ [][NextLimit]_vars

(***************************************************************************)
(* After the end of the stream: the application ends a stream with a       *)
(* STREAM-END event, with yaml_emitter_close or with yaml_emitter_dump of  *)
(* a document without nodes, and hands further events to the emitter.      *)
(***************************************************************************)
\* The dumper's record of an emitter that the application calls.
Dumper(e) == [e |-> e, ok |-> TRUE, events |-> <<>>, memory |-> TRUE]

\* The return of yaml_emitter_open, yaml_emitter_close and yaml_emitter_dump:
\* events are the events that the call has handed to yaml_emitter_emit.
DumperReturn(op, e, result, handed) ==
    /\ emitter' = e
    /\ call' = [op |-> op, result |-> result, token |-> NO_TOKEN,
                event |-> NO_EVENT, events |-> handed, document |-> document]
    /\ UNCHANGED <<MAX_NESTING_LEVEL, parser, api, pc, events, loader,
                   document, application>>

\* The application makes one call of the dumper at most between two calls
\* of yaml_emitter_emit.
DumperCall == call.op \in {"open", "close", "dump"}

\* yaml_emitter_open, which asserts that the emitter is not opened.
EmitterOpen ==
    LET returned(d) ==
            DumperReturn("open", d.e, IF d.ok THEN 1 ELSE 0, d.events)
    IN /\ application.emitter = "made"
       /\ pc = "idle"
       /\ ~DumperCall
       /\ ~emitter.opened
       /\ returned(yaml_emitter_open(Dumper(emitter)))

\* yaml_emitter_close, which asserts that the emitter is opened.
EmitterClose ==
    LET returned(d) ==
            DumperReturn("close", d.e, IF d.ok THEN 1 ELSE 0, d.events)
    IN /\ application.emitter = "made"
       /\ pc = "idle"
       /\ ~DumperCall
       /\ emitter.opened
       /\ returned(yaml_emitter_close(Dumper(emitter)))

\* yaml_emitter_dump of a document without nodes.
EmitterDumpEmpty ==
    LET returned(r) == DumperReturn("dump", r.e, r.result, r.events)
    IN /\ application.emitter = "made"
       /\ pc = "idle"
       /\ ~DumperCall
       /\ returned(Emit("yaml_emitter_dump", <<emitter, NO_DOCUMENT, TRUE>>))

MaxAfter == 2

\* The events that follow the end of the stream.
AfterPieces ==
    << <<STREAM_START_EVENT_INIT("UTF8")>>, <<STREAM_END_EVENT_INIT>>,
       <<DOCUMENT_START_EVENT_INIT(<<>>, <<>>, TRUE)>>,
       <<DOCUMENT_END_EVENT_INIT(TRUE)>>, <<PlainScalar>>,
       <<COLLECTION_START_EVENT_INIT("SEQUENCE_START", NULL, NULL, TRUE,
                                     "ANY")>>,
       <<COLLECTION_START_EVENT_INIT("MAPPING_START", NULL, NULL, TRUE,
                                     "ANY")>>,
       <<Own(EVENT_INIT("SEQUENCE_END", Mark0, Mark0))>> >>

\* A stream ended by its STREAM-END event, or the documents of a stream that
\* yaml_emitter_open starts and yaml_emitter_close ends, and the events that
\* follow.
EndScripts ==
    {stream \o after :
        stream \in {<<>>,
                    <<DOCUMENT_START_EVENT_INIT(<<>>, <<>>, TRUE), PlainScalar,
                      DOCUMENT_END_EVENT_INIT(TRUE)>>,
                    <<STREAM_START_EVENT_INIT("UTF8"), STREAM_END_EVENT_INIT>>,
                    <<STREAM_START_EVENT_INIT("UTF8"),
                      DOCUMENT_START_EVENT_INIT(<<>>, <<>>, TRUE), PlainScalar,
                      DOCUMENT_END_EVENT_INIT(TRUE), STREAM_END_EVENT_INIT>>},
        after \in Inputs(AfterPieces, MaxAfter)}

InitEnd == InitEmitter(EndScripts)

NextEnd ==
    \/ EmitterInitialize
    \/ EmitterEmit
    \/ EmitterOpen
    \/ EmitterClose
    \/ EmitterDumpEmpty

SpecEnd == InitEnd /\ [][NextEnd]_vars

(***************************************************************************)
(* Whole streams: the application emits the events of a well-formed        *)
(* stream, from STREAM-START to STREAM-END, of documents that hold scalars *)
(* and collections.                                                        *)
(***************************************************************************)
MaxStreamDocuments == 2

\* The events of the root nodes: a scalar, empty and nested collections.
StreamNodes ==
    {<<PlainScalar>>,
     <<EmitPieces[2][1], EmitPieces[3][1]>>,
     <<EmitPieces[2][1], PlainScalar, EmitPieces[3][1]>>,
     <<EmitPieces[4][1], PlainScalar, PlainScalar, EmitPieces[5][1]>>,
     <<EmitPieces[2][1], EmitPieces[2][1], PlainScalar, EmitPieces[3][1],
       EmitPieces[3][1]>>,
     <<EmitPieces[2][1], EmitPieces[4][1], PlainScalar, EmitPieces[2][1],
       EmitPieces[3][1], EmitPieces[5][1], EmitPieces[3][1]>>}

RECURSIVE StreamDocuments(_)
StreamDocuments(n) ==
    IF n = 0 THEN {<<>>}
    ELSE StreamDocuments(n - 1)
         \cup {documents
               \o <<DOCUMENT_START_EVENT_INIT(<<>>, <<>>, implicit)>>
               \o node \o <<DOCUMENT_END_EVENT_INIT(implicit)>> :
                   documents \in StreamDocuments(n - 1),
                   node \in StreamNodes, implicit \in BOOLEAN}

StreamScripts ==
    {<<STREAM_START_EVENT_INIT(encoding)>> \o documents
     \o <<STREAM_END_EVENT_INIT>> :
        encoding \in {"UTF8", "UTF16LE"},
        documents \in StreamDocuments(MaxStreamDocuments)}

InitStream == InitEmitter(StreamScripts)

SpecStream == InitStream /\ [][NextEmit]_vars

(***************************************************************************)
(* Documents of the document API handed to the dumper: the application     *)
(* loads a document or starts from an empty one, adds nodes, items and     *)
(* pairs, among them items and pairs that make a collection hold itself,   *)
(* and dumps the document.                                                 *)
(***************************************************************************)
CycleInputs ==
    { <<>>,
      <<"&", "a", " ", "{", "*", "a", ":", " ", "[", "*", "a", "]", "}">> }

InitCycle == Start(CycleInputs) /\ api = "load"

NextCycle ==
    \/ ParserLoad
    \/ LoadNodes
    \/ DocumentAddScalar
    \/ DocumentAddSequence
    \/ DocumentAddMapping
    \/ DocumentAppendSequenceItem
    \/ DocumentAppendMappingPair
    \/ EmitterInitialize
    \/ EmitterDump

SpecCycle == InitCycle /\ [][NextCycle]_vars

(***************************************************************************)
(* Block scalars at the end of a document: streams of at most              *)
(* MaxOpenDocuments documents whose root is a literal or folded scalar     *)
(* that ends with no, one or two line breaks, a sequence that holds such a *)
(* scalar, or a plain scalar, with and without a %TAG directive and with   *)
(* implicit and explicit document ends.                                    *)
(***************************************************************************)
MaxOpenDocuments == 2

BlockScalar(style, value) ==
    Own(SCALAR_EVENT_INIT(NULL, NULL, value, TRUE, FALSE, style, Mark0,
                          Mark0))

OpenNodes ==
    {<<PlainScalar>>,
     <<BlockScalar("LITERAL", <<"a">>)>>,
     <<BlockScalar("LITERAL", <<"a", "\n">>)>>,
     <<BlockScalar("LITERAL", <<"a", "\n", "\n">>)>>,
     <<BlockScalar("FOLDED", <<"\n">>)>>,
     <<EmitPieces[2][1], BlockScalar("LITERAL", <<"a", "\n", "\n">>),
       PlainScalar, EmitPieces[3][1]>>}

OpenDirectives == {<<>>, <<[handle |-> <<"!", "e", "!">>, prefix |-> <<"q">>]>>}

RECURSIVE OpenDocuments(_)
OpenDocuments(n) ==
    IF n = 0 THEN {<<>>}
    ELSE OpenDocuments(n - 1)
         \cup {documents
               \o <<DOCUMENT_START_EVENT_INIT(<<>>, directives, TRUE)>>
               \o node \o <<DOCUMENT_END_EVENT_INIT(implicit)>> :
                   documents \in OpenDocuments(n - 1),
                   node \in OpenNodes, directives \in OpenDirectives,
                   implicit \in BOOLEAN}

OpenScripts ==
    {<<STREAM_START_EVENT_INIT("UTF8")>> \o documents
     \o <<STREAM_END_EVENT_INIT>> :
        documents \in OpenDocuments(MaxOpenDocuments)}

InitOpen == InitEmitter(OpenScripts)

SpecOpen == InitOpen /\ [][NextEmit]_vars

(***************************************************************************)
(* Inputs with characters of one to four octets in UTF-8, with and without *)
(* a byte order mark, and in UTF-16 of either byte order.  The application *)
(* keeps the raw input; the input of the parser holds its characters as    *)
(* yaml_parser_update_buffer decodes them into the buffer, in UTF-8 and    *)
(* without the byte order mark.  The tokens are taken one by one.          *)
(***************************************************************************)
MaxIndexPieces == 3

\* The pieces of the inputs, as code points: a, e with an acute accent, the
\* euro sign, a character beyond the basic plane, and indicators.
IndexPieces ==
    << <<97>>, <<233>>, <<8364>>, <<128512>>, <<58, 32>>, <<45, 32>>,
       <<10>>, <<13, 10>>, <<64>> >>

\* A code point in UTF-16, the octet of the lower half at low.
Utf16(value, low) ==
    LET unit(u) ==
            IF low = 0 THEN <<BYTE[(u % 256) + 1], BYTE[(u \div 256) + 1]>>
            ELSE <<BYTE[(u \div 256) + 1], BYTE[(u % 256) + 1]>>
    IN IF value < 65536 THEN unit(value)
       ELSE unit(55296 + ((value - 65536) \div 1024))
            \o unit(56320 + ((value - 65536) % 1024))

RECURSIVE Encoded(_, _)
Encoded(text, encoding) ==
    IF text = <<>> THEN <<>>
    ELSE (CASE encoding = "UTF8" -> Utf8(Head(text))
            [] encoding = "UTF16LE" -> Utf16(Head(text), 0)
            [] encoding = "UTF16BE" -> Utf16(Head(text), 1))
         \o Encoded(Tail(text), encoding)

\* The raw inputs of a text.
Raw(text) ==
    {Encoded(text, "UTF8"),
     <<"xEF", "xBB", "xBF">> \o Encoded(text, "UTF8"),
     <<"xFF", "xFE">> \o Encoded(text, "UTF16LE"),
     <<"xFE", "xFF">> \o Encoded(text, "UTF16BE")}

\* The characters that yaml_parser_update_buffer puts into the buffer.
RECURSIVE Decoded(_, _, _)
Decoded(raw, encoding, offset) ==
    IF offset >= Len(raw) THEN <<>>
    ELSE LET character ==
                 CASE encoding = "UTF8" -> DecodeUtf8(raw, offset)
                   [] encoding = "UTF16LE" -> DecodeUtf16(raw, offset, 0, 1)
                   [] encoding = "UTF16BE" -> DecodeUtf16(raw, offset, 1, 0)
         IN Utf8(character.value)
            \o Decoded(raw, encoding, offset + character.width)

InitIndex ==
    /\ MAX_NESTING_LEVEL = 1000
    /\ emitter = NULL
    /\ \E text \in Inputs(IndexPieces, MaxIndexPieces) :
           \E raw \in Raw(text) :
               /\ application = [events |-> <<>>, emitted |-> 0,
                                 released |-> <<>>, emitter |-> "none",
                                 raw |-> raw]
               /\ parser = yaml_parser_set_input_string(
                               yaml_parser_initialize,
                               Decoded(raw,
                                       yaml_parser_determine_encoding(raw)
                                           .encoding,
                                       yaml_parser_determine_encoding(raw)
                                           .offset))
    /\ api = "scan"
    /\ pc = "idle"
    /\ call = NoCall
    /\ events = <<>>
    /\ loader = <<>>
    /\ document = NO_DOCUMENT

SpecIndex == InitIndex /\ [][TokenScan]_vars

(***************************************************************************)
(* The round trip: the application loads the document of an input, dumps   *)
(* it to an emitter that writes to a string, and hands the text that the   *)
(* dump has written to a new parser, which loads it.                       *)
(***************************************************************************)
RoundInputs ==
    { <<"a">>,
      <<"!", "!", "s", "t", "r">>,
      <<"-", "-", "-">>,
      <<"!", " ", "a">>,
      <<"!", "x", " ", "a">>,
      <<"'", " ", "a", "'">>,
      <<"'", "a", " ", "'">>,
      <<"'", "#", "'">>,
      <<"'", "a", ":", " ", "b", "'">>,
      <<"'", "-", " ", "a", "'">>,
      <<"\"", "\\", "n", "\"">>,
      <<"\"", "a", "\\", "n", "b", "\"">>,
      <<"\"", "\\", "t", "\"">>,
      <<"\"", "xC3", "xA9", "\"">>,
      <<"|", "\n", " ", "a", "\n">>,
      <<"[", "a", ",", " ", "b", "]">>,
      <<"[", "]">>,
      <<"{", "}">>,
      <<"-", " ", "a", "\n", "-", " ", "b">>,
      <<"-", " ", "!", "!", "s", "t", "r">>,
      <<"a", ":", " ", "b">>,
      <<"a", ":">>,
      <<"?", " ", "[", "a", "]", "\n", ":", " ", "b">>,
      <<"[", "&", "a", " ", "x", ",", " ", "*", "a", "]">>,
      <<"&", "a", " ", "[", "*", "a", "]">>,
      <<"!", "!", "s", "e", "q", " ", "[", "a", "]">> }

InitRound == Start(RoundInputs) /\ api = "load"

\* The application reads the text of the first document that it has dumped
\* and hands it to a new parser (yaml_parser_initialize and
\* yaml_parser_set_input_string); dumped is the document that it has dumped.
ParserReload ==
    /\ application.emitter = "made"
    /\ pc = "idle"
    /\ "dumped" \notin DOMAIN application
    /\ call.op = "dump"
    /\ call.result = 1
    /\ call.document.nodes # <<>>
    /\ Cardinality({i \in DOMAIN events :
                       events[i].type = "DOCUMENT_START"}) = 1
    /\ parser' = yaml_parser_set_input_string(yaml_parser_initialize,
                                              emitter.output.buffer)
    /\ application' = [x \in DOMAIN application \cup {"dumped"} |->
                          IF x = "dumped" THEN call.document
                          ELSE application[x]]
    /\ events' = <<>>
    /\ loader' = <<>>
    /\ call' = NoCall
    /\ UNCHANGED <<MAX_NESTING_LEVEL, api, pc, emitter, document>>

NextRound ==
    \/ ParserLoad
    \/ LoadNodes
    \/ EmitterInitialize
    \/ EmitterDump
    \/ ParserReload

SpecRound == InitRound /\ [][NextRound]_vars

(***************************************************************************)
(* Properties.                                                             *)
(***************************************************************************)
ErrorFields(p) ==
    [error |-> p.error, context |-> p.context,
     context_mark |-> p.context_mark, problem |-> p.problem,
     problem_mark |-> p.problem_mark]

\* The Start events of es that no End event has closed, innermost last;
\* <<"UNMATCHED">> when an End event closes another kind of Start event or
\* none.
RECURSIVE Unclosed(_, _)
Unclosed(es, open) ==
    IF es = <<>> THEN open
    ELSE LET type == Head(es).type
         IN IF type \in {"DOCUMENT_START", "SEQUENCE_START", "MAPPING_START"}
            THEN Unclosed(Tail(es), Append(open, type))
            ELSE IF type \in {"DOCUMENT_END", "SEQUENCE_END", "MAPPING_END"}
            THEN IF open # <<>>
                    /\ <<open[Len(open)], type>> \in
                           { <<"DOCUMENT_START", "DOCUMENT_END">>,
                             <<"SEQUENCE_START", "SEQUENCE_END">>,
                             <<"MAPPING_START", "MAPPING_END">> }
                 THEN Unclosed(Tail(es), SubSeq(open, 1, Len(open) - 1))
                 ELSE <<"UNMATCHED">>
            ELSE Unclosed(Tail(es), open)

StreamEnded ==
    events # <<>> /\ events[Len(events)].type = "STREAM_END"

\* C2: in the events of a stream that parses without error every
\* MAPPING-START, SEQUENCE-START and DOCUMENT-START event has its matching
\* End event, and the pairs are properly nested: no End event closes
\* anything but the innermost open Start event, and nothing is open at
\* STREAM-END.
C2_EventsNested ==
    parser.error = "NO" =>
        /\ Unclosed(events, <<>>) # <<"UNMATCHED">>
        /\ StreamEnded => Unclosed(events, <<>>) = <<>>

C2_Witness ==
    /\ parser.error = "NO"
    /\ StreamEnded
    /\ \E i, j \in DOMAIN events :
           /\ i < j
           /\ events[i].type = "SEQUENCE_START"
           /\ events[j].type = "MAPPING_START"
           /\ Unclosed(SubSeq(events, 1, j), <<>>) =
                  <<"DOCUMENT_START", "SEQUENCE_START", "MAPPING_START">>

\* C4 as stated: once the parser has recorded an error, no later call
\* returns success.
C4_LaterCallsReturn0 ==
    [][parser.error # "NO" /\ pc = "idle" => call'.result # 1]_vars

\* C4, amended: the call that fails returns 0 and sets the error fields,
\* which never change afterwards; a later yaml_parser_scan or
\* yaml_parser_parse returns 1 with an empty token or event, and a later
\* yaml_parser_load returns no document: it returns 0, or the process ends
\* at an assertion.
C4_StickyError ==
    [][/\ parser.error = "NO" /\ parser'.error # "NO" => call'.result = 0
       /\ parser.error # "NO" =>
              /\ ErrorFields(parser') = ErrorFields(parser)
              /\ api \in {"scan", "parse"} =>
                     /\ call'.result = 1
                     /\ call'.token = NO_TOKEN
                     /\ call'.event = NO_EVENT
              /\ api = "load" =>
                     /\ call'.result \in {0, AGAIN, ABORT}
                     /\ pc' = "idle" => call'.result = 0
                     /\ document' = NO_DOCUMENT]_vars

C4_Witness ==
    /\ parser.error # "NO"
    /\ call.op \in {"scan", "parse"}
    /\ call.result = 1

\* The number of collections open at once in the events es.
RECURSIVE Open(_)
Open(es) ==
    IF es = <<>> THEN 0
    ELSE LET type == es[Len(es)].type
             before == Open(SubSeq(es, 1, Len(es) - 1))
         IN IF type \in {"SEQUENCE_START", "MAPPING_START"} THEN before + 1
            ELSE IF type \in {"SEQUENCE_END", "MAPPING_END"} THEN before - 1
            ELSE before

\* The index in Nest(kinds) of the character that opens collection n.
RECURSIVE Opening(_, _)
Opening(kinds, n) ==
    IF n = 1 THEN 0
    ELSE Opening(kinds, n - 1) + (IF kinds[n - 1] = "-" THEN 2 ELSE 1)

MaximumReached ==
    /\ parser.error = "PARSER"
    /\ parser.problem =
           "Maximum nesting level reached, set with yaml_set_max_nest_level())"

\* C5: with the maximum nesting level N, an input that nests exactly N
\* collections parses without error, and the parse of an input that nests
\* N+1 collections ends in a parser error positioned at the opening of
\* collection N+1.
C5_ExactLimit ==
    \A kinds \in NestKinds(MaxDepth) :
        parser.input = Nest(kinds) =>
            /\ Len(kinds) = MAX_NESTING_LEVEL => parser.error = "NO"
            /\ /\ Len(kinds) = MAX_NESTING_LEVEL + 1
               /\ parser.error # "NO" \/ StreamEnded
               => /\ MaximumReached
                  /\ parser.problem_mark.index =
                         Opening(kinds, MAX_NESTING_LEVEL + 1)

\* C6: the collections open at once in the event stream never exceed the
\* maximum nesting level.
C6_OpenWithinLimit == Open(events) <= MAX_NESTING_LEVEL

Terminated ==
    parser.error # "NO" \/ parser.stream_end_produced \/ pc = "aborted"

\* C7: the parse of every input terminates.  The events delivered, one for
\* each call before STREAM-END or the error, are at most four for each
\* character of the input and four more; every call of yaml_parser_parse
\* before the end fails or delivers an event and consumes a token or
\* changes the state of the parser.
C7_Terminates ==
    /\ [](Len(events) <= 4 + 4 * Len(parser.input))
    /\ [][api = "parse" /\ ~Terminated =>
              \/ parser'.error # "NO"
              \/ /\ Len(events') = Len(events) + 1
                 /\ <<parser'.state, parser'.states, parser'.tokens_parsed>>
                        # <<parser.state, parser.states,
                            parser.tokens_parsed>>]_vars

C7_Witness ==
    /\ api = "parse"
    /\ parser.error = "NO"
    /\ StreamEnded
    /\ Len(events) = 4 + 4 * Len(parser.input)
    /\ parser.input # <<>>

NodeEvents == {"SCALAR", "SEQUENCE_START", "MAPPING_START"}

\* The events of the document that is being loaded.
CurrentDocument(es) ==
    LET starts == {i \in DOMAIN es : es[i].type = "DOCUMENT_START"}
    IN IF starts = {} THEN <<>>
       ELSE SubSeq(es, CHOOSE i \in starts : \A j \in starts : j <= i, Len(es))

\* The events of es that define the anchor.
Anchoring(es, anchor) ==
    {i \in DOMAIN es : /\ es[i].type \in NodeEvents
                        /\ anchor # NULL
                        /\ es[i].anchor = anchor}

\* The index is added to the parent node.
Attached(before, after, index) ==
    IF before.type = "SEQUENCE"
    THEN after = [before EXCEPT !.items = Append(@, index)]
    ELSE \/ after = [before EXCEPT
                        !.pairs = Append(@, [key |-> index, value |-> 0])]
         \/ /\ before.pairs # <<>>
            /\ after = [before EXCEPT !.pairs[Len(before.pairs)].value = index]

\* C8: the load of an ALIAS event creates no node: the index of the node
\* registered under the anchor is attached to the current parent, the other
\* nodes are unchanged, and the index is smaller than the position a new
\* node would take.
C8_AliasSharesNode ==
    [][pc = "load_nodes" /\ call'.event.type = "ALIAS" /\ parser'.error = "NO"
       => LET nodes == parser.document.nodes
              loaded == parser'.document.nodes
          IN /\ Len(loaded) = Len(nodes)
             /\ loader' = loader
             /\ \E i \in DOMAIN parser.aliases :
                    LET index == parser.aliases[i].index
                    IN /\ parser.aliases[i].anchor = call'.event.anchor
                       /\ index \in 1..Len(nodes)
                       /\ index < Len(nodes) + 1
                       /\ \E e \in Anchoring(CurrentDocument(events),
                                             call'.event.anchor) :
                              CurrentDocument(events)[e].start_mark =
                                  nodes[index].start_mark
                       /\ IF loader = <<>> THEN loaded = nodes
                          ELSE /\ Attached(nodes[Top(loader)],
                                           loaded[Top(loader)], index)
                               /\ \A k \in DOMAIN nodes \ {Top(loader)} :
                                      loaded[k] = nodes[k]]_vars

C8_Witness ==
    /\ pc = "load_nodes"
    /\ call.op = "load_nodes"
    /\ call.event.type = "ALIAS"
    /\ call.result = AGAIN
    /\ loader # <<>>
    /\ \E index \in DOMAIN parser.document.nodes :
           parser.document.nodes[Top(loader)].items = <<index>>

\* C9: the anchors are those of one document: between two loads there are
\* none, an alias to an anchor that the current document has defined
\* resolves to a node of the current document, and the load of any other
\* alias fails with the composer error "found undefined alias".
C9_AnchorsPerDocument ==
    /\ [](pc = "idle" => parser.aliases = <<>>)
    /\ [][pc = "load_nodes" /\ call'.event.type = "ALIAS"
          => IF Anchoring(CurrentDocument(events), call'.event.anchor) # {}
             THEN /\ parser'.error = "NO"
                  /\ \E i \in DOMAIN parser.aliases :
                         /\ parser.aliases[i].anchor = call'.event.anchor
                         /\ parser.aliases[i].mark.index >=
                                parser.document.start_mark.index
             ELSE /\ parser'.error = "COMPOSER"
                  /\ parser'.problem = "found undefined alias"
                  /\ parser'.problem_mark = call'.event.start_mark
                  /\ call'.result = 0
                  /\ document' = NO_DOCUMENT]_vars

C9_Witness ==
    /\ parser.error = "COMPOSER"
    /\ parser.problem = "found undefined alias"
    /\ call.event.type = "ALIAS"
    /\ Anchoring(events, call.event.anchor) # {}

\* C10: the anchors registered in a document are distinct, and the load of
\* a node whose anchor is registered already in the document fails with a
\* composer error whose context mark is the position of the first
\* occurrence and whose problem mark is the position of the second.
C10_DuplicateAnchor ==
    /\ [](\A i, j \in DOMAIN parser.aliases :
              parser.aliases[i].anchor = parser.aliases[j].anchor => i = j)
    /\ [][/\ pc = "load_nodes"
          /\ call'.event.type \in NodeEvents
          /\ Anchoring(CurrentDocument(events), call'.event.anchor) # {}
          => /\ call'.result = 0
             /\ parser'.error = "COMPOSER"
             /\ parser'.context = "found duplicate anchor; first occurrence"
             /\ parser'.problem = "second occurrence"
             /\ parser'.problem_mark = call'.event.start_mark
             /\ \E e \in Anchoring(CurrentDocument(events),
                                   call'.event.anchor) :
                    parser'.context_mark =
                        CurrentDocument(events)[e].start_mark]_vars

C10_Witness ==
    /\ parser.error = "COMPOSER"
    /\ parser.problem = "second occurrence"
    /\ call.event.type \in NodeEvents
    /\ parser.context_mark.index < parser.problem_mark.index


\* The ids stored in the collections of a document are indices of its arena.
ValidIds(d) ==
    \A n \in DOMAIN d.nodes :
        /\ \A i \in DOMAIN d.nodes[n].items :
               d.nodes[n].items[i] \in DOMAIN d.nodes
        /\ \A i \in DOMAIN d.nodes[n].pairs :
               /\ d.nodes[n].pairs[i].key \in DOMAIN d.nodes
               /\ d.nodes[n].pairs[i].value \in DOMAIN d.nodes

\* C11: in every document a successful load produced or the document API
\* built, each node id stored in the items of a sequence or in the pairs of a
\* mapping (key and value) is a valid 1-based index into the node arena of
\* that document.
C11_ValidNodeIds == pc # "aborted" => ValidIds(document)

\* Every pair of every mapping has its key and its value.
PairsComplete(nodes) ==
    \A n \in DOMAIN nodes :
        \A i \in DOMAIN nodes[n].pairs :
            nodes[n].pairs[i].key # 0 /\ nodes[n].pairs[i].value # 0

\* C12: the children of a mapping are paired in the order of the events: a
\* child added while the last pair has a key and no value becomes the value
\* of that pair, any other child opens a new pair as its key; and when the
\* mapping is closed without an error, as in every document a load delivers,
\* each of its pairs has both its key and its value.
C12_PairsInEventOrder ==
    [][/\ pc = "load_nodes" /\ parser'.error = "NO" /\ loader # <<>>
          /\ call'.event.type \in NodeEvents \cup {"ALIAS"}
          /\ parser.document.nodes[Top(loader)].type = "MAPPING"
          => LET nodes == parser.document.nodes
                 pairs == nodes[Top(loader)].pairs
                 paired == parser'.document.nodes[Top(loader)].pairs
                 found == {i \in DOMAIN parser.aliases :
                              parser.aliases[i].anchor = call'.event.anchor}
                 child == IF call'.event.type = "ALIAS"
                          THEN parser.aliases[CHOOSE i \in found : TRUE].index
                          ELSE Len(nodes) + 1
             IN /\ child \in DOMAIN parser'.document.nodes
                /\ IF pairs # <<>> /\ pairs[Len(pairs)].key # 0
                      /\ pairs[Len(pairs)].value = 0
                   THEN paired = [pairs EXCEPT ![Len(pairs)].value = child]
                   ELSE paired = Append(pairs, [key |-> child, value |-> 0])
       /\ pc = "load_nodes" /\ parser'.error = "NO"
          /\ call'.event.type = "MAPPING_END" /\ call'.result = AGAIN
          => /\ loader # <<>>
             /\ loader' = Pop(loader)
             /\ parser'.document.nodes[Top(loader)].pairs =
                    parser.document.nodes[Top(loader)].pairs
             /\ \A i \in DOMAIN parser.document.nodes[Top(loader)].pairs :
                    LET pair == parser.document.nodes[Top(loader)].pairs[i]
                    IN pair.key # 0 /\ pair.value # 0
       /\ call'.op = "load" /\ call'.result = 1 /\ pc' = "idle"
          => PairsComplete(document'.nodes)]_vars

\* A mapping of two pairs has been loaded.
C12_Witness ==
    /\ call.op = "load"
    /\ call.result = 1
    /\ \E n \in DOMAIN document.nodes :
           /\ document.nodes[n].type = "MAPPING"
           /\ Len(document.nodes[n].pairs) = 2
           /\ PairsComplete(document.nodes)

\* The tag written in the input at the mark: the characters up to the next
\* blank, break or end of the input.
RECURSIVE Written(_, _)
Written(input, index) ==
    IF index >= Len(input) \/ input[index + 1] \in {" ", "\n"} THEN <<>>
    ELSE <<input[index + 1]>> \o Written(input, index + 1)

\* The handle of a written tag: none for "!" alone and for the verbatim
\* tag "!<...>", "!!" or "!word!" where the tag begins with one, and "!"
\* otherwise.
TagHandle(text) ==
    LET closing == {k \in 2..Len(text) :
                       /\ text[k] = "!"
                       /\ \A j \in 2..(k - 1) : IS_ALPHA(text[j])}
    IN IF Len(text) < 2 \/ text[2] = "<" THEN <<>>
       ELSE IF closing # {}
       THEN SubSeq(text, 1, CHOOSE k \in closing : \A j \in closing : k <= j)
       ELSE <<"!">>

TagSuffix(text) == SubSeq(text, Len(TagHandle(text)) + 1, Len(text))

\* The %TAG directives of the document that holds the event at position i.
Declared(es, i) ==
    LET starts == {k \in 1..i : es[k].type = "DOCUMENT_START"}
    IN IF starts = {} THEN <<>>
       ELSE es[CHOOSE k \in starts : \A j \in starts : j <= k].tag_directives

\* The prefixes registered under the handle.
Prefixes(declared, handle) ==
    {declared[k].prefix : k \in {j \in DOMAIN declared :
                                    declared[j].handle = handle}}

\* The events of nodes that begin with a tag.
Tagged(es, input) ==
    {i \in DOMAIN es : /\ es[i].type \in NodeEvents
                        /\ es[i].start_mark.index < Len(input)
                        /\ input[es[i].start_mark.index + 1] = "!"}

\* C13 as stated: a node tag written with the handle "!" and the suffix s
\* resolves to "!s" verbatim in every document, whatever %TAG directives the
\* document declares.
C13_PrimaryHandleVerbatim ==
    \A i \in Tagged(events, parser.input) :
        LET text == Written(parser.input, events[i].start_mark.index)
        IN TagHandle(text) = <<"!">> => events[i].tag = text

\* C13, amended: a node tag written with the handle "!" and the suffix s
\* resolves to "!s" in every document that declares no %TAG directive for
\* the handle "!", and to the declared prefix followed by s in a document
\* that declares one.
C13_PrimaryHandle ==
    \A i \in Tagged(events, parser.input) :
        LET text == Written(parser.input, events[i].start_mark.index)
            declared == Prefixes(Declared(events, i), <<"!">>)
        IN TagHandle(text) = <<"!">>
           => IF declared = {} THEN events[i].tag = text
              ELSE /\ Cardinality(declared) = 1
                   /\ \A prefix \in declared :
                          events[i].tag = prefix \o TagSuffix(text)

\* A tag "!s" has been resolved in a document without directives, and one
\* in a document that declares the handle "!".
C13_Witness ==
    \E i \in Tagged(events, parser.input) :
        /\ TagHandle(Written(parser.input, events[i].start_mark.index))
               = <<"!">>
        /\ Prefixes(Declared(events, i), <<"!">>) = {<<"p">>}
        /\ events[i].tag = <<"p", "s">>

\* The prefixes a document registers under a handle other than "!": the
\* declared ones, and the default one of "!!" if the document declares none.
Registered(declared, handle) ==
    IF Prefixes(declared, handle) = {} /\ handle = <<"!", "!">>
    THEN {<<"t", "a", "g", ":", "y", "a", "m", "l", ".", "o", "r", "g", ",",
            "2", "0", "0", "2", ":">>}
    ELSE Prefixes(declared, handle)

\* C14: a tag with a handle other than "!" resolves to the prefix of the
\* registered handle that matches it (the handles of a document being
\* distinct, the one equal to it is the longest match) followed by the
\* suffix; and the parse fails with the parser error "found undefined tag
\* handle" at the tag exactly when no registered handle matches.
C14_HandleResolves ==
    /\ \A i \in Tagged(events, parser.input) :
           LET text == Written(parser.input, events[i].start_mark.index)
               prefixes == Registered(Declared(events, i), TagHandle(text))
           IN TagHandle(text) \notin {<<>>, <<"!">>}
              => /\ Cardinality(prefixes) = 1
                 /\ \A prefix \in prefixes :
                        events[i].tag = prefix \o TagSuffix(text)
    /\ parser.problem = "found undefined tag handle"
       => LET text == Written(parser.input, parser.problem_mark.index)
          IN /\ parser.error = "PARSER"
             /\ TagHandle(text) \notin {<<>>, <<"!">>}
             /\ Registered(Declared(events, Len(events)), TagHandle(text))
                    = {}

\* A tag "!e!s" has been resolved through the handle its document declares.
C14_Witness ==
    \E i \in Tagged(events, parser.input) :
        /\ TagHandle(Written(parser.input, events[i].start_mark.index))
               = <<"!", "e", "!">>
        /\ Declared(events, i) # <<>>
        /\ events[i].tag = <<"q", "s">>

\* The directives of the lines "%TAG handle prefix" written in the input
\* from the index on, each with the index of its line.
RECURSIVE TagDirectives(_, _)
TagDirectives(input, index) ==
    LET handle == Written(input, index + 5)
        prefix == Written(input, index + 6 + Len(handle))
        next == index + 7 + Len(handle) + Len(prefix)
    IN IF /\ next <= Len(input)
          /\ SubSeq(input, index + 1, index + 5) = <<"%", "T", "A", "G", " ">>
          /\ handle # <<>> /\ prefix # <<>> /\ input[next] = "\n"
       THEN <<[handle |-> handle, prefix |-> prefix, index |-> index]>>
            \o TagDirectives(input, next)
       ELSE <<>>

\* The directives that declare a handle an earlier one has declared.
Duplicates(ds) ==
    {k \in DOMAIN ds : \E j \in 1..(k - 1) : ds[j].handle = ds[k].handle}

\* The first document has been started and not ended.
InFirstDocument(es) ==
    /\ Len(es) >= 2
    /\ es[2].type = "DOCUMENT_START"
    /\ \A i \in DOMAIN es : es[i].type # "DOCUMENT_END"

\* C15 as stated: when the directives of a document declare a %TAG handle
\* that is already registered, the later declaration wins: no error is
\* reported, the document starts and the handle stands for the later prefix.
C15_LaterDeclarationWins ==
    LET ds == TagDirectives(parser.input, 0)
    IN Duplicates(ds) # {}
       => /\ parser.error = "NO"
          /\ InFirstDocument(events)
             => \A k \in DOMAIN ds :
                    (\A j \in (k + 1)..Len(ds) : ds[j].handle # ds[k].handle)
                    => \E i \in DOMAIN parser.tag_directives :
                           parser.tag_directives[i] =
                               [handle |-> ds[k].handle,
                                prefix |-> ds[k].prefix]

\* C15, amended: a %TAG directive for a handle that an earlier directive of
\* the same document has declared is an error: the parse fails at that
\* directive with the parser error "found duplicate %TAG directive" and the
\* document does not start.  Only the built-in directives for "!" and "!!",
\* which are added after those of the document, are skipped when the
\* document has declared their handle; the declared prefix stays.
C15_DuplicateTagDirective ==
    LET ds == TagDirectives(parser.input, 0)
        dups == Duplicates(ds)
        declared == [k \in DOMAIN ds |->
                        [handle |-> ds[k].handle, prefix |-> ds[k].prefix]]
        defaults == << [handle |-> <<"!">>, prefix |-> <<"!">>],
                       [handle |-> <<"!", "!">>,
                        prefix |-> <<"t", "a", "g", ":", "y", "a", "m", "l",
                                     ".", "o", "r", "g", ",", "2", "0", "0",
                                     "2", ":">>] >>
    IN /\ dups # {} => Len(events) <= 1
       /\ dups # {} /\ api = "parse" /\ Len(events) = 1
          /\ call.event.type # "STREAM_START"
          => parser.problem = "found duplicate %TAG directive"
       /\ parser.problem = "found duplicate %TAG directive"
          => /\ parser.error = "PARSER"
             /\ dups # {}
             /\ parser.problem_mark.index =
                    ds[CHOOSE k \in dups : \A j \in dups : k <= j].index
       /\ InFirstDocument(events)
          => /\ events[2].tag_directives = declared
             /\ parser.tag_directives =
                    declared
                    \o SelectSeq(defaults,
                                 LAMBDA d : \A k \in DOMAIN ds :
                                                ds[k].handle # d.handle)

\* The parse has failed at the second of two directives for one handle.
C15_Witness ==
    /\ parser.problem = "found duplicate %TAG directive"
    /\ Len(TagDirectives(parser.input, 0)) = 2
    /\ Duplicates(TagDirectives(parser.input, 0)) = {2}

\* The KEY tokens of simple keys: they are inserted at the mark of the key
\* and are empty, while the KEY token of a '?' spans that character.
SimpleKeyTokens(tokens) ==
    {tokens[i] : i \in {j \in DOMAIN tokens :
                           /\ tokens[j].type = "KEY"
                           /\ tokens[j].start_mark = tokens[j].end_mark}}

\* The KEY tokens that the step has inserted into the queue.
Inserted == SimpleKeyTokens(parser'.tokens) \ SimpleKeyTokens(parser.tokens)

\* The number of octets of the first characters of the input.
Octets(input, characters) ==
    CHOOSE b \in characters..(4 * characters) :
        /\ b <= Len(input)
        /\ Cardinality({j \in 1..b : ORD[input[j]] \div 64 # 2}) = characters
        /\ b < Len(input) => ORD[input[b + 1]] \div 64 # 2

\* C16 as stated: whenever a KEY token is inserted for a simple-key
\* candidate, the ':' that confirms it lies on the line where the key
\* started and at most 1024 bytes after the start of the key.
C16_WithinBytes ==
    [][pc = "fetch_more_tokens"
       => \A key \in Inserted :
              LET value == Top(parser'.tokens)
              IN /\ value.type = "VALUE"
                 /\ value.start_mark.line = key.start_mark.line
                 /\ (parser'.pointer - 1)
                    - Octets(parser.input, key.start_mark.index) <= 1024]_vars

\* C16, amended: whenever a KEY token is inserted for a simple-key
\* candidate, the candidate was still possible, and the ':' that confirms it
\* lies on the line where the key started and at most 1024 characters after
\* the start of the key, a character of several octets counting once; a
\* candidate outside that window yields no KEY token.
C16_WithinCharacters ==
    [][pc = "fetch_more_tokens"
       => \A key \in Inserted :
              LET value == Top(parser'.tokens)
              IN /\ value.type = "VALUE"
                 /\ value.start_mark.line = key.start_mark.line
                 /\ value.start_mark.index - key.start_mark.index <= 1024
                 /\ \E i \in DOMAIN parser.simple_keys :
                        /\ parser.simple_keys[i].possible
                        /\ parser.simple_keys[i].mark = key.start_mark
                        /\ ~parser'.simple_keys[i].possible]_vars

\* A KEY token has been inserted for a key whose ':' is the 1024th character
\* after its start.
C16_Witness ==
    /\ pc = "fetch_more_tokens"
    /\ parser.tokens # <<>>
    /\ Top(parser.tokens).type = "VALUE"
    /\ \E key \in SimpleKeyTokens(parser.tokens) :
           /\ Top(parser.tokens).start_mark.index - key.start_mark.index = 1024
           /\ Top(parser.tokens).start_mark.line = key.start_mark.line

\* The required candidates: the levels of the simple keys that are possible
\* and required.
RequiredKeys(p) ==
    {i \in DOMAIN p.simple_keys :
        p.simple_keys[i].possible /\ p.simple_keys[i].required}

\* C17 as stated: a required simple key that runs past 1024 bytes is
\* invalid, and scanning fails: no KEY token is inserted for a required
\* candidate whose ':' lies more than 1024 bytes after its start.
C17_RequiredWithinBytes ==
    [][pc = "fetch_more_tokens"
       => \A key \in Inserted :
              (\E i \in RequiredKeys(parser) :
                   parser.simple_keys[i].mark = key.start_mark)
              => (parser'.pointer - 1)
                 - Octets(parser.input, key.start_mark.index) <= 1024]_vars

\* The mark lies outside the window of the key: on a later line, or more than
\* 1024 characters after its start.
Outside(key, mark) ==
    \/ key.mark.line < mark.line
    \/ key.mark.index + 1024 < mark.index

\* C17, amended: a required simple key is never dropped silently.  Over an
\* iteration of the scanner a required candidate stays as it is, or its ':'
\* inserts its KEY token, or scanning fails with the scanner error "could
\* not find expected ':'" at the context "while scanning a simple key" of
\* that key.  It stays only while the token fetched begins on the line of
\* the key and at most 1024 characters (not bytes) after its start, the end
\* of the stream excepted, whose token begins on a line of its own; and an
\* iteration that begins outside the window of a required candidate fails
\* with that error.
C17_RequiredKey ==
    [][pc = "fetch_more_tokens"
       => \A i \in RequiredKeys(parser) :
              LET key == parser.simple_keys[i]
                  fetched == Top(parser'.tokens)
                  failed == /\ parser'.error = "SCANNER"
                            /\ parser'.problem = "could not find expected ':'"
                            /\ parser'.context = "while scanning a simple key"
                            /\ parser'.context_mark = key.mark
              IN /\ \/ failed
                    \/ /\ i \in DOMAIN parser'.simple_keys
                       /\ parser'.simple_keys[i] = key
                    \/ /\ parser'.error = "NO"
                       /\ \E token \in Inserted : token.start_mark = key.mark
                 /\ /\ parser'.error = "NO"
                    /\ i \in RequiredKeys(parser')
                    /\ parser'.simple_keys[i] = key
                    /\ fetched.type # "STREAM_END"
                    => ~Outside(key, fetched.start_mark)
                 /\ Outside(key, parser.mark) => failed]_vars

\* Scanning has failed at a required key whose ':' had not come within 1024
\* characters.
C17_Witness ==
    /\ parser.error = "SCANNER"
    /\ parser.problem = "could not find expected ':'"
    /\ parser.problem_mark.line = parser.context_mark.line
    /\ parser.problem_mark.index > parser.context_mark.index + 1024

\* The indentation levels of the scanner, from the bottom of the stack to
\* the current indent.
Levels(p) == Append(p.indents, p.indent)

\* The number of tokens of the queue that are of one of the types.
Count(tokens, types) ==
    Cardinality({i \in DOMAIN tokens : tokens[i].type \in types})

\* C18: once the scanner has started, its indentation levels (the entries of
\* the stack followed by the current indent) are strictly increasing from
\* bottom to top and begin with the sentinel -1, so that the indent is -1
\* when the stack is empty.  Over an iteration of the scanner as many levels
\* are popped as BLOCK-END tokens are appended, then as many levels are
\* pushed as block collections are started by roll_indent, and the levels
\* that are not popped stay as they are.
C18_IndentLevels ==
    [][pc = "fetch_more_tokens"
       => LET old == Levels(parser)
              new == Levels(parser')
              popped == Count(parser'.tokens, {"BLOCK_END"})
                        - Count(parser.tokens, {"BLOCK_END"})
              pushed == Count(parser'.tokens, {"BLOCK_SEQUENCE_START",
                                               "BLOCK_MAPPING_START"})
                        - Count(parser.tokens, {"BLOCK_SEQUENCE_START",
                                                "BLOCK_MAPPING_START"})
          IN parser'.stream_start_produced
             => /\ new[1] = -1
                /\ \A i, j \in DOMAIN new : i < j => new[i] < new[j]
                /\ parser'.indents = <<>> => parser'.indent = -1
                /\ parser.stream_start_produced
                   => /\ popped \in 0..(Len(old) - 1)
                      /\ pushed \in {0, 1}
                      /\ Len(new) = Len(old) - popped + pushed
                      /\ SubSeq(new, 1, Len(old) - popped)
                         = SubSeq(old, 1, Len(old) - popped)]_vars

\* An iteration has popped a level with its BLOCK-END token and pushed the
\* level of a block sequence that starts at a smaller column.
C18_Witness ==
    /\ Levels(parser) = <<-1, 0>>
    /\ \E i \in DOMAIN parser.tokens :
           /\ i + 1 \in DOMAIN parser.tokens
           /\ parser.tokens[i].type = "BLOCK_END"
           /\ parser.tokens[i + 1].type = "BLOCK_SEQUENCE_START"

\* STREAM-START is the first of the events and no other one, and STREAM-END
\* is the last one.
StreamStartFirst(es) ==
    \A i \in DOMAIN es :
        /\ (es[i].type = "STREAM_START") = (i = 1)
        /\ es[i].type = "STREAM_END" => i = Len(es)

\* C19: the first token and the first event delivered are STREAM-START, and
\* STREAM-END is delivered once, as the last one.  The token delivered by a
\* call of yaml_parser_scan is STREAM-START exactly when it is the first
\* one; with STREAM-END the queue is empty and the end of the stream is
\* recorded; a call after that delivers the empty token, returns 1 and
\* leaves the parser alone, and no call delivers the empty token with 1
\* before STREAM-END unless the parser has failed.  The same holds for the
\* events of yaml_parser_parse, and a call of yaml_parser_load after
\* STREAM-END returns 1 with a document that has no nodes, hence no root.
C19_StreamStartAndEnd ==
    [][/\ api = "scan"
          => LET token == call'.token
             IN /\ (token.type = "STREAM_START")
                   = (token # NO_TOKEN /\ parser.tokens_parsed = 0)
                /\ token.type = "STREAM_END"
                   => parser'.stream_end_produced /\ parser'.tokens = <<>>
                /\ parser.stream_end_produced
                   => token = NO_TOKEN /\ call'.result = 1 /\ parser' = parser
                /\ token = NO_TOKEN /\ call'.result = 1
                   => parser.stream_end_produced \/ Failed(parser)
       /\ api \in {"parse", "load"} => StreamStartFirst(events')
       /\ api = "parse"
          => /\ StreamEnded
                => /\ call'.event = NO_EVENT
                   /\ call'.result = 1
                   /\ events' = events
                   /\ parser' = parser
             /\ call'.event = NO_EVENT /\ call'.result = 1
                => StreamEnded \/ Failed(parser)
       /\ api = "load" /\ StreamEnded
          => /\ pc' = "idle"
             /\ call'.result = 1
             /\ document'.nodes = <<>>
             /\ events' = events
             /\ parser' = parser]_vars

\* A call of yaml_parser_scan after STREAM-END has delivered the empty
\* token.
C19_Witness ==
    /\ api = "scan"
    /\ parser.error = "NO"
    /\ parser.stream_end_produced
    /\ parser.tokens_parsed > 2
    /\ call.op = "scan"
    /\ call.token = NO_TOKEN
    /\ call.result = 1

\* C20: every token that the scanner creates is delivered once and in the
\* order of the queue.  ENQUEUE adds the token after the tokens of the queue
\* and QUEUE_INSERT adds it between them, the array growing or its tokens
\* moving to its start as is needed, and the tokens that were queued stay in
\* their order, none twice; DEQUEUE delivers the first token of the queue
\* and leaves the others; tokens_parsed is the number of tokens delivered;
\* and the tokens lie within the array.
C20_QueueOrder ==
    [][LET old == Contents(parser.tokens)
           new == Contents(parser'.tokens)
           all == events' \o new
           queue == parser'.tokens
       IN /\ call'.op = "ENQUEUE"
             => new = Append(old, call'.token) /\ events' = events
          /\ call'.op = "QUEUE_INSERT"
             => /\ events' = events
                /\ \E i \in 0..Len(old) :
                       new = SubSeq(old, 1, i) \o <<call'.token>>
                             \o SubSeq(old, i + 1, Len(old))
          /\ call'.op = "DEQUEUE"
             => /\ call'.token = Head(old)
                /\ new = Tail(old)
                /\ events' = Append(events, call'.token)
          /\ parser'.tokens_parsed = Len(events')
          /\ Cardinality({all[i] : i \in DOMAIN all} \ {NO_TOKEN}) = Len(all)
          /\ queue.start <= queue.head
          /\ queue.head <= queue.tail
          /\ queue.tail <= queue.end
          /\ queue.end - queue.start = Len(queue.buffer)]_vars

\* The array has grown after its tokens had moved to its start, and a token
\* inserted before others has been delivered in its place.
C20_Witness ==
    /\ parser.tokens.end = 2 * INITIAL_QUEUE_SIZE
    /\ parser.tokens.head < parser.tokens_parsed
    /\ \E i \in DOMAIN events :
           /\ events[i].type = "KEY"
           /\ i < Len(events)
           /\ events[i].start_mark.index > events[i + 1].start_mark.index

\* The place in the queue of the token that the simple key has saved.
KeyIndex(p, i) == p.simple_keys[i].token_number - p.tokens_parsed

\* C30: when a ':' confirms a pending simple key, the KEY token is inserted
\* immediately before the first token of the key, with a
\* BLOCK-MAPPING-START token before it exactly when the key is in the block
\* context and its column opens a new indentation level; the tokens queued
\* before and after keep their places and the VALUE token comes last.  The
\* place of insertion, token_number - tokens_parsed, lies inside the queue:
\* at all times the token that a pending simple key has saved is queued, not
\* consumed, and begins at the mark of the key.
C30_KeyRetrofit ==
    [][/\ \A i \in DOMAIN parser'.simple_keys :
              parser'.simple_keys[i].possible
              => /\ KeyIndex(parser', i) \in 0..(Len(parser'.tokens) - 1)
                 /\ parser'.tokens[KeyIndex(parser', i) + 1].start_mark
                    = parser'.simple_keys[i].mark
       /\ pc = "fetch_more_tokens"
          => \A key \in Inserted :
                 LET old == parser.tokens
                     new == parser'.tokens
                     top == Len(parser.simple_keys)
                     index == KeyIndex(parser, top)
                     opens == /\ parser.flow_level = 0
                              /\ parser.indent < key.start_mark.column
                     at == index + (IF opens THEN 2 ELSE 1)
                 IN /\ parser.simple_keys[top].possible
                    /\ parser.simple_keys[top].mark = key.start_mark
                    /\ index \in 0..(Len(old) - 1)
                    /\ SubSeq(new, 1, index) = SubSeq(old, 1, index)
                    /\ opens => /\ new[index + 1].type = "BLOCK_MAPPING_START"
                                /\ new[index + 1].start_mark = key.start_mark
                                /\ parser'.indent = key.start_mark.column
                    /\ new[at] = key
                    /\ new[at + 1] = old[index + 1]
                    /\ new[at + 1].start_mark = key.start_mark
                    /\ new = SubSeq(new, 1, at) \o SubSeq(old, index + 1, Len(old))
                             \o <<new[Len(new)]>>
                    /\ new[Len(new)].type = "VALUE"]_vars

\* A KEY token has been inserted behind a token that was queued before the
\* key, and before the first token of the key.
C30_Witness ==
    /\ pc = "fetch_more_tokens"
    /\ Len(parser.tokens) = 4
    /\ parser.tokens[1].type = "FLOW_SEQUENCE_START"
    /\ parser.tokens[2].type = "KEY"
    /\ parser.tokens[2].start_mark = parser.tokens[2].end_mark
    /\ parser.tokens[3].start_mark = parser.tokens[2].start_mark
    /\ parser.tokens[4].type = "VALUE"

Trail == Len(parser[2].input) - Len(parser[1].input)

C28_ValidIsReadable ==
    pc = "read" /\ call.result = 1 => parser.error = "NO"

\* C28, amended: yaml_check_utf8 checks the form of the UTF-8 sequences
\* only.  On a string it takes for valid the reader reports no malformed
\* sequence: it reads the string, or it refuses a character that is well
\* encoded, with "control characters are not allowed" or with "invalid
\* Unicode character"; and the reader reads no string that yaml_check_utf8
\* refuses, unless the string begins with the byte order mark of UTF-16.
C28_ValidIsWellFormed ==
    pc = "read"
    => /\ call.result = 1
          => \/ parser.error = "NO"
             \/ /\ parser.error = "READER"
                /\ parser.problem \in {"control characters are not allowed",
                                       "invalid Unicode character"}
       /\ call.result = 0 /\ parser.error = "NO"
          => yaml_parser_determine_encoding(parser.input).encoding # "UTF8"

\* A string with a character of several octets is valid and is read.
C28_Witness ==
    /\ pc = "read"
    /\ call.result = 1
    /\ parser.error = "NO"
    /\ Len(parser.input) = 4
    /\ parser.input[1] = "xF4"

\* The number that a string of decimal digits denotes.
RECURSIVE Decimal(_)
Decimal(s) ==
    IF s = <<>> THEN 0
    ELSE Decimal(SubSeq(s, 1, Len(s) - 1)) * 10 + AS_DIGIT(s[Len(s)])

\* The digits of the string from the first that is not 0.
RECURSIVE Significant(_)
Significant(s) ==
    IF s # <<>> /\ Head(s) = "0" THEN Significant(Tail(s)) ELSE s

\* The node that the path of keys leads to from the node, 0 if there is
\* none.
RECURSIVE Walk(_, _, _)
Walk(d, id, keys) ==
    LET node == d.nodes[id]
        key == Head(keys)
        entries == {i \in DOMAIN node.pairs :
                       /\ d.nodes[node.pairs[i].key].type = "SCALAR"
                       /\ d.nodes[node.pairs[i].key].value = key}
    IN IF keys = <<>> THEN id
       ELSE CASE node.type = "MAPPING" ->
                     IF entries = {} THEN 0
                     ELSE Walk(d, node.pairs[CHOOSE i \in entries :
                                      \A j \in entries : i <= j].value,
                               Tail(keys))
              [] node.type = "SEQUENCE" ->
                     IF /\ key # <<>>
                        /\ \A k \in DOMAIN key : IS_DIGIT(key[k])
                        /\ Len(Significant(key)) <= 9
                        /\ Decimal(key) < Len(node.items)
                     THEN Walk(d, node.items[Decimal(key) + 1], Tail(keys))
                     ELSE 0
              [] OTHER -> 0

\* C29: yaml_document_get_node_by_path walks from the root of the document
\* one key at a time.  At a mapping the key selects the value of the first
\* entry whose key is a scalar equal to it, at a sequence a key of decimal
\* digits selects the item at that index, counted from zero, and in every
\* other case the result is 0: no such key, a key on a sequence that is not
\* decimal or is out of range, a step into a scalar, a document without
\* nodes, a path without keys.
C29_NodeByPath ==
    [][call'.op = "get_node_by_path"
       => call'.result
          = IF call'.keys = <<>> \/ document.nodes = <<>> THEN 0
            ELSE Walk(document, 1, call'.keys)]_vars

(***************************************************************************)
(* The emitter and the dumper.                                             *)
(***************************************************************************)
\* A size that no output of the streams reaches.
Unlimited == 100000

\* The octets that the call of the step would hand to the string with room
\* for all of them.
Needed ==
    IF call'.op = "flush"
    THEN Len(yaml_emitter_flush(
                 [emitter EXCEPT !.output.size = Unlimited]).e.output.buffer)
    ELSE Len(Emit("yaml_emitter_emit",
                  <<[emitter EXCEPT !.output.size = Unlimited], call'.event,
                    TRUE>>).e.output.buffer)

\* C27: with a string of size octets as the output, size_written never
\* exceeds size, no octet is copied behind the end of the string, and a call
\* whose output needs more than size octets fails with a writer error.
C27_StringSink ==
    [][/\ application'.emitter # "none"
          => /\ emitter'.output.size_written <= emitter'.output.size
             /\ Len(emitter'.output.buffer) = emitter'.output.size_written
       /\ /\ application.emitter = "made"
          /\ application'.emitter = "made"
          /\ call'.op = "flush" \/ (call'.op = "emit" /\ call'.enqueued)
          /\ Needed > emitter.output.size
          => /\ call'.result = 0
             /\ emitter'.error = "WRITER"
             /\ emitter'.output.size_written = emitter'.output.size]_vars

C27_Witness ==
    /\ application.emitter = "made"
    /\ call.op \in {"emit", "flush"}
    /\ call.result = 0
    /\ emitter.error = "WRITER"
    /\ emitter.output.size > 0
    /\ emitter.output.size_written = emitter.output.size

\* string is found in text.
Contains(text, string) ==
    \E k \in 0..Len(text) - Len(string) :
        SubSeq(text, k + 1, k + Len(string)) = string

\* The directives that are registered when the emitter writes the tag and
\* whose prefix the tag begins with, the prefix being shorter than the tag.
Matching(tag) ==
    {td \in {emitter.tag_directives[k] : k \in DOMAIN emitter.tag_directives} :
        /\ Len(td.prefix) < Len(tag)
        /\ SubSeq(tag, 1, Len(td.prefix)) = td.prefix}

\* The events with a tag that the last call has processed and whose tag
\* the emitter has written: it writes the tag of an event unless the event is
\* implicit and the output is not canonical.
TagWritten ==
    {d \in {call.deleted[k] : k \in DOMAIN call.deleted} :
        /\ d.type \in {"SCALAR", "SEQUENCE_START", "MAPPING_START"}
        /\ d.tag # NULL
        /\ d.tag # <<>>
        /\ \/ emitter.canonical
           \/ IF d.type = "SCALAR"
              THEN ~d.plain_implicit /\ ~d.quoted_implicit
              ELSE ~d.implicit}

\* C24: a tag is written with the handle of the registered directive that
\* has the longest prefix matching the tag, followed by the rest of the tag,
\* and as !<tag> exactly when no registered prefix matches.
C24_LongestPrefix ==
    application.emitter = "made" /\ call.op = "emit"
    => \A d \in TagWritten :
           IF Matching(d.tag) = {}
           THEN Contains(call.written, <<"!", "<">> \o d.tag \o <<">">>)
           ELSE /\ ~Contains(call.written, <<"!", "<">>)
                /\ \E td \in Matching(d.tag) :
                       /\ \A other \in Matching(d.tag) :
                              Len(other.prefix) <= Len(td.prefix)
                       /\ Contains(call.written,
                                   td.handle
                                   \o SubSeq(d.tag, Len(td.prefix) + 1,
                                             Len(d.tag)))

\* The event has an anchor, or names one, that is the empty string.
EmptyAnchor(d) ==
    /\ d.type \in {"ALIAS", "SCALAR", "SEQUENCE_START", "MAPPING_START"}
    /\ d.anchor = <<>>

\* The event has a tag that is the empty string.
EmptyTag(d) ==
    /\ d.type \in {"SCALAR", "SEQUENCE_START", "MAPPING_START"}
    /\ d.tag = <<>>

\* The tag of the event may be left out of the output.
Implicit(d) ==
    IF d.type = "SCALAR" THEN d.plain_implicit \/ d.quoted_implicit
    ELSE d.implicit

\* The last call was a yaml_emitter_emit that failed on the event at the
\* head of the queue.
FailedOnHead ==
    /\ application.emitter = "made"
    /\ call.op = "emit"
    /\ call.result = 0
    /\ call.enqueued

\* C25 as stated: an event with an empty anchor or an empty tag is never
\* emitted, whatever its kind and its implicit flags are; the call that
\* comes to it fails with an emitter error.
C25_EmptyNames ==
    application.emitter = "made" /\ call.op = "emit"
    => /\ \A k \in DOMAIN call.deleted :
              ~EmptyAnchor(call.deleted[k]) /\ ~EmptyTag(call.deleted[k])
       /\ /\ FailedOnHead
          /\ \/ EmptyAnchor(emitter.events.buffer[1])
             \/ EmptyTag(emitter.events.buffer[1])
          => emitter.error = "EMITTER"

\* C25 amended: an event with an empty anchor is never emitted and the call
\* that comes to it fails with the emitter error of the anchor or the alias;
\* an event with an empty tag fails with the emitter error of the tag when
\* the output is canonical or the event is not implicit, and is emitted
\* otherwise.
C25_EmptyNamesAnalysed ==
    application.emitter = "made" /\ call.op = "emit"
    => /\ \A k \in DOMAIN call.deleted :
              /\ ~EmptyAnchor(call.deleted[k])
              /\ EmptyTag(call.deleted[k])
                 => ~emitter.canonical /\ Implicit(call.deleted[k])
       /\ FailedOnHead /\ EmptyAnchor(emitter.events.buffer[1])
          => /\ emitter.error = "EMITTER"
             /\ emitter.problem
                = IF emitter.events.buffer[1].type = "ALIAS"
                  THEN "alias value must not be empty"
                  ELSE "anchor value must not be empty"
       /\ /\ FailedOnHead
          /\ EmptyTag(emitter.events.buffer[1])
          /\ ~EmptyAnchor(emitter.events.buffer[1])
          /\ emitter.canonical \/ ~Implicit(emitter.events.buffer[1])
          => /\ emitter.error = "EMITTER"
             /\ emitter.problem = "tag value must not be empty"

C25_Witness ==
    /\ FailedOnHead
    /\ EmptyTag(emitter.events.buffer[1])
    /\ emitter.problem = "tag value must not be empty"

\* The number of events that the claim wants behind a start event.
Accumulate(d) ==
    CASE d.type = "DOCUMENT_START" -> 1
      [] d.type = "SEQUENCE_START" -> 2
      [] d.type = "MAPPING_START" -> 3
      [] OTHER -> 0

\* The events that the last call of yaml_emitter_emit has processed.
Processed == IF call.enqueued THEN call.deleted ELSE <<>>

\* The queue when the call came to the k-th of the events it has processed,
\* and the number of events behind the head of that queue.
QueueAt(k) ==
    SubSeq(Processed, k, Len(Processed)) \o emitter.events.buffer

Behind(k) == Len(QueueAt(k)) - 1

\* The starts less the ends among the first n events of the queue.
RECURSIVE Nesting(_, _)
Nesting(queue, n) ==
    IF n = 0 THEN 0
    ELSE Nesting(queue, n - 1)
         + (IF queue[n].type \in {"STREAM_START", "DOCUMENT_START",
                                  "SEQUENCE_START", "MAPPING_START"}
            THEN 1
            ELSE IF queue[n].type \in {"STREAM_END", "DOCUMENT_END",
                                       "SEQUENCE_END", "MAPPING_END"}
            THEN -1
            ELSE 0)

\* The queue holds the end of what its head starts.
Closed(queue) == \E n \in 1..Len(queue) : Nesting(queue, n) = 0

\* C23 as stated: when the emitter processes a DOCUMENT-START, a
\* SEQUENCE-START or a MAPPING-START event, at least 1, 2 or 3 events are
\* queued behind it.
C23_Accumulated ==
    application.emitter = "made" /\ call.op = "emit"
    => \A k \in DOMAIN Processed :
           Behind(k) >= Accumulate(Processed[k])

\* C23 amended: when the emitter processes a DOCUMENT-START, a
\* SEQUENCE-START or a MAPPING-START event, at least 1, 2 or 3 events are
\* queued behind it or the queue holds the end of what the event starts; and
\* a call that succeeds leaves an event in the queue only if it is such a
\* start event with fewer events behind it and without its end.
C23_AccumulatedOrClosed ==
    application.emitter = "made" /\ call.op = "emit"
    => /\ \A k \in DOMAIN Processed :
              \/ Behind(k) >= Accumulate(Processed[k])
              \/ Closed(QueueAt(k))
       /\ call.result = 1 /\ emitter.events.buffer # <<>>
          => /\ Len(emitter.events.buffer) - 1
                < Accumulate(emitter.events.buffer[1])
             /\ ~Closed(emitter.events.buffer)

C23_Witness ==
    /\ application.emitter = "made"
    /\ call.op = "emit"
    /\ \E k \in DOMAIN Processed :
           Processed[k].type = "MAPPING_START" /\ Behind(k) = 3

\* The number of times the allocation of the k-th event of the application
\* is in the queue of the emitter.
Queued(k) ==
    Cardinality({i \in DOMAIN emitter.events.buffer :
                    emitter.events.buffer[i].data = k})

\* C22: the allocation of every event that the application has handed to
\* yaml_emitter_emit is either held in the queue of the emitter, which
\* yaml_emitter_delete releases, or has been released, and it has been
\* released once at most, whether the calls have succeeded or failed; the
\* emitter releases nothing else.
C22_Ownership ==
    application.emitter # "none"
    => \A k \in DOMAIN application.events :
           IF k <= application.emitted
           THEN application.released[k] + Queued(k) = 1
           ELSE application.released[k] = 0 /\ Queued(k) = 0

\* The call could not queue its event and has released it.
C22_Witness ==
    /\ application.emitter = "made"
    /\ call.op = "emit"
    /\ ~call.enqueued
    /\ call.result = 0
    /\ emitter.error = "MEMORY"
    /\ application.released[application.emitted] = 1


\* The visits of the nodes of a document in document order, from a node on:
\* a node that was visited before is visited again without its content, a
\* node visited first is followed by the visits of its content and, for a
\* collection, by its end.
RECURSIVE VisitNode(_, _, _)
RECURSIVE VisitAll(_, _, _)
VisitNode(doc, index, walk) ==
    IF index \in walk.seen
    THEN [walk EXCEPT !.trace = Append(@, [node |-> index, kind |-> "again"])]
    ELSE IF doc.nodes[index].type = "SCALAR"
    THEN [trace |-> Append(walk.trace, [node |-> index, kind |-> "first"]),
          seen |-> walk.seen \cup {index}]
    ELSE [VisitAll(doc, Children(doc.nodes[index]),
                   [trace |-> Append(walk.trace,
                                     [node |-> index, kind |-> "first"]),
                    seen |-> walk.seen \cup {index}])
             EXCEPT !.trace = Append(@, [node |-> index, kind |-> "end"])]

VisitAll(doc, nodes, walk) ==
    IF nodes = <<>> THEN walk
    ELSE VisitAll(doc, Tail(nodes), VisitNode(doc, Head(nodes), walk))

Visits(doc) ==
    IF doc.nodes = <<>> THEN <<>>
    ELSE VisitNode(doc, 1, [trace |-> <<>>, seen |-> {}]).trace

\* How many times the visits reach a node.
Times(trace, n) ==
    Cardinality({i \in DOMAIN trace :
                     trace[i].node = n /\ trace[i].kind # "end"})

FirstVisit(trace, n) ==
    CHOOSE i \in DOMAIN trace : trace[i].node = n /\ trace[i].kind = "first"

Shared(trace) ==
    {trace[i].node : i \in {k \in DOMAIN trace : trace[k].kind = "again"}}

\* The name idNNN of a number below 1000.
IdName(number) ==
    <<"i", "d", BYTE[48 + ((number \div 100) % 10) + 1],
      BYTE[48 + ((number \div 10) % 10) + 1], BYTE[48 + (number % 10) + 1]>>

EventsOfNodes(dumped) ==
    SelectSeq(dumped,
              LAMBDA event : event.type \in {"ALIAS", "SCALAR",
                                             "SEQUENCE_START", "SEQUENCE_END",
                                             "MAPPING_START", "MAPPING_END"})

\* The events of the nodes follow the visits: a first visit is the node in
\* full, with an anchor idNNN exactly when the node is reached again, a later
\* visit is an alias with the anchor of the first visit, and the anchors of
\* different nodes differ and are numbered from 1 without a gap.
FollowsVisits(doc, trace, dumped, result) ==
    /\ Len(dumped) <= Len(trace)
    /\ result = 1 => Len(dumped) = Len(trace)
    /\ \A i \in DOMAIN dumped :
           CASE trace[i].kind = "again" ->
                    /\ dumped[i].type = "ALIAS"
                    /\ dumped[i].anchor
                           = dumped[FirstVisit(trace, trace[i].node)].anchor
             [] trace[i].kind = "end" ->
                    dumped[i].type
                        = IF doc.nodes[trace[i].node].type = "SEQUENCE"
                          THEN "SEQUENCE_END" ELSE "MAPPING_END"
             [] trace[i].kind = "first" ->
                    /\ dumped[i].type
                           = CASE doc.nodes[trace[i].node].type = "SCALAR" ->
                                      "SCALAR"
                               [] doc.nodes[trace[i].node].type = "SEQUENCE" ->
                                      "SEQUENCE_START"
                               [] OTHER -> "MAPPING_START"
                    /\ doc.nodes[trace[i].node].type = "SCALAR"
                           => dumped[i].value = doc.nodes[trace[i].node].value
                    /\ IF Times(trace, trace[i].node) = 1
                       THEN dumped[i].anchor = NULL
                       ELSE \E number \in 1 .. Cardinality(Shared(trace)) :
                                dumped[i].anchor = IdName(number)
    /\ \A i, k \in DOMAIN dumped :
           /\ i # k
           /\ trace[i].kind = "first"
           /\ trace[k].kind = "first"
           /\ Times(trace, trace[i].node) > 1
           /\ Times(trace, trace[k].node) > 1
           => dumped[i].anchor # dumped[k].anchor

\* C26: when a document is dumped, each node reached more than once from the
\* root is emitted in full exactly once, on its first visit in document
\* order, with an anchor idNNN from a counter, every later visit emits an
\* ALIAS event with that anchor, and a node reached once has no anchor.
C26_SharedNodes ==
    call.op = "dump"
    => FollowsVisits(call.document, Visits(call.document),
                     EventsOfNodes(call.events), call.result)

\* A dumped document with a node reached three times and a node reached once.
C26_Witness ==
    /\ call.op = "dump"
    /\ call.result = 1
    /\ \E n \in DOMAIN call.document.nodes :
           Times(Visits(call.document), n) = 3
    /\ \E n \in DOMAIN call.document.nodes :
           Times(Visits(call.document), n) = 1
    /\ \E i \in DOMAIN call.events :
           /\ call.events[i].type = "ALIAS"
           /\ call.events[i].anchor = IdName(1)


(***************************************************************************)
(* The scanner's stacks and the balance of its tokens.                     *)
(***************************************************************************)
\* C31: once the stream has started, the stack of simple keys holds
\* flow_level + 1 entries and flow_level is not negative, whatever openers
\* and closers of flow collections the input holds.
C31_SimpleKeysMirrorFlowLevel ==
    parser.stream_start_produced
    => /\ parser.flow_level >= 0
       /\ Len(parser.simple_keys) = parser.flow_level + 1

\* A closer without an opener has been scanned, and later two openers are
\* open.
C31_Witness ==
    /\ Len(events) >= 4
    /\ events[2].type \in {"FLOW_SEQUENCE_END", "FLOW_MAPPING_END"}
    /\ parser.flow_level = 2
    /\ Len(parser.simple_keys) = 3


\* How many of the tokens have one of the types.
CountTokens(tokens, types) ==
    Cardinality({i \in DOMAIN tokens : tokens[i].type \in types})

\* Every prefix of the tokens holds at least as many block starts as
\* BLOCK-END tokens, and the whole holds as many.
Balanced(tokens) ==
    /\ \A n \in 0..Len(tokens) :
           CountTokens(SubSeq(tokens, 1, n), {"BLOCK_END"})
               <= CountTokens(SubSeq(tokens, 1, n),
                        {"BLOCK_SEQUENCE_START", "BLOCK_MAPPING_START"})
    /\ CountTokens(tokens, {"BLOCK_END"})
           = CountTokens(tokens, {"BLOCK_SEQUENCE_START", "BLOCK_MAPPING_START"})

Completed ==
    /\ events # <<>>
    /\ events[Len(events)].type = "STREAM_END"
    /\ ~Failed(parser)

\* C32: in a token stream completed with STREAM-END without an error every
\* BLOCK-SEQUENCE-START and BLOCK-MAPPING-START is closed by one later
\* BLOCK-END, also when the input or a document ends inside an open flow
\* collection.
C32_BlockEndsBalance == Completed => Balanced(events)


\* The block starts among the tokens that no BLOCK-END has closed.
OpenBlocks(tokens) ==
    CountTokens(tokens, {"BLOCK_SEQUENCE_START", "BLOCK_MAPPING_START"})
        - CountTokens(tokens, {"BLOCK_END"})

\* C32 as the scanner has it: no BLOCK-END comes before its block start, and
\* when the stream is completed outside of flow collections every block
\* start is closed; at the end of a stream inside a flow collection the
\* blocks that are open stay open.
C32_BlockEndsBalanceInBlockContext ==
    /\ \A n \in 0..Len(events) : OpenBlocks(SubSeq(events, 1, n)) >= 0
    /\ Completed
       => /\ OpenBlocks(events) = Len(parser.indents)
          /\ parser.flow_level = 0 => OpenBlocks(events) = 0

\* A stream has ended inside a flow collection that follows a document
\* marker, with a block left open.
C32_Witness ==
    /\ Completed
    /\ parser.flow_level > 0
    /\ OpenBlocks(events) > 0
    /\ CountTokens(events, {"DOCUMENT_START"}) > 0


(***************************************************************************)
(* The events of the parser.                                               *)
(***************************************************************************)
\* The collections that the events from..to open without closing them.
Opened(from, to) ==
    Cardinality({k \in from..to :
                     events[k].type \in {"SEQUENCE_START", "MAPPING_START"}})
        - Cardinality({k \in from..to :
                           events[k].type \in {"SEQUENCE_END", "MAPPING_END"}})

\* The event that ends the collection started by the event at start.
EndOf(start) ==
    CHOOSE end \in start..Len(events) :
        /\ Opened(start, end) = 0
        /\ \A k \in start..(end - 1) : Opened(start, k) > 0

IsEnded(start) == \E end \in start..Len(events) : Opened(start, end) = 0

\* The events that begin the direct children of the collection started by
\* the event at start.
ChildrenOf(start) ==
    {k \in (start + 1)..(EndOf(start) - 1) :
         /\ Opened(start, k - 1) = 1
         /\ events[k].type \in {"SCALAR", "ALIAS", "SEQUENCE_START",
                                "MAPPING_START"}}

\* A scalar that takes no character of the input.
Missing(event) ==
    event.type = "SCALAR" /\ event.start_mark = event.end_mark

\* C33: a mapping that has ended has an even number of direct children, its
\* keys and values in turn, and a key or value that is missing in the input
\* is an empty plain scalar with plain_implicit set.
C33_KeysAndValuesAlternate ==
    \A i \in DOMAIN events :
        /\ events[i].type = "MAPPING_START" /\ IsEnded(i)
           => Cardinality(ChildrenOf(i)) % 2 = 0
        /\ Missing(events[i])
           => /\ events[i].value = <<>>
              /\ events[i].style = "PLAIN"
              /\ events[i].plain_implicit
              /\ events[i].anchor = NULL
              /\ events[i].tag = NULL

\* A mapping has ended that holds a missing key and a missing value.
C33_Witness ==
    \E i \in DOMAIN events :
        /\ events[i].type = "MAPPING_START"
        /\ IsEnded(i)
        /\ Cardinality(ChildrenOf(i)) >= 2
        /\ \A k \in ChildrenOf(i) : Missing(events[k])


\* The %TAG directives of the document that the event at i belongs to: those
\* of the last DOCUMENT-START event up to i.
DeclaredAt(i) ==
    LET start == CHOOSE k \in 1..i :
                     /\ events[k].type = "DOCUMENT_START"
                     /\ \A l \in (k + 1)..i : events[l].type # "DOCUMENT_START"
    IN {events[start].tag_directives[k] :
            k \in DOMAIN events[start].tag_directives}

\* The directives in effect in a document: the ones it declares, and the
\* defaults for ! and !! where it declares none.
InEffect(declared) ==
    declared
    \cup {d \in {[handle |-> <<"!">>, prefix |-> <<"!">>],
                 [handle |-> <<"!", "!">>,
                  prefix |-> <<"t", "a", "g", ":", "y", "a", "m", "l", ".",
                               "o", "r", "g", ",", "2", "0", "0", "2",
                               ":">>]} :
              \A e \in declared : e.handle # d.handle}

\* C34: a %TAG directive is in effect for the document it precedes only: the
\* table of the parser is empty after DOCUMENT-END, in a document it holds
\* the directives the document declares and the defaults for ! and !!, the
\* tag of a node is resolved with these, a handle that the document does
\* not declare is undefined though an earlier document declared it, and a
\* handle may be declared again in a later document.
C34_TagDirectiveScope ==
    /\ call.op = "parse" /\ call.event.type = "DOCUMENT_END"
       => parser.tag_directives = <<>>
    /\ call.op = "parse" /\ call.event.type = "DOCUMENT_START"
       => {parser.tag_directives[k] : k \in DOMAIN parser.tag_directives}
              = InEffect(DeclaredAt(Len(events)))
    /\ \A i \in DOMAIN events :
           events[i].type = "SCALAR"
           => \E d \in InEffect(DeclaredAt(i)) :
                  events[i].tag = d.prefix \o <<"s">>
    /\ call.op = "parse" /\ call.result = 0
       /\ parser.problem = "found undefined tag handle"
       => \A d \in DeclaredAt(Len(events)) : d.handle # <<"!", "e", "!">>
    /\ parser.problem # "found duplicate %TAG directive"

\* The first document declared !e! and used it, the second does not declare
\* it and the parse of its node has failed.
C34_Witness ==
    /\ call.op = "parse"
    /\ call.result = 0
    /\ parser.problem = "found undefined tag handle"
    /\ \E i \in DOMAIN events :
           /\ events[i].type = "SCALAR"
           /\ events[i].tag = <<"q", "s">>
    /\ Len(SelectSeq(events, LAMBDA e : e.type = "DOCUMENT_START")) = 2


\* C35: the nesting limit of a parse is the one it began under, whatever
\* calls of yaml_set_max_nest_level are made while the parser is in the
\* middle of its stream: a parse begun under the limit of 1000 never fails
\* at the nesting limit on collections nested MaxDepth deep.
C35_LimitFixedForParse ==
    parser.problem
        # "Maximum nesting level reached, set with yaml_set_max_nest_level())"


\* The emitter has processed STREAM-END.
AfterEnd == application.emitter = "made" /\ emitter.state = "END"

\* The events that the step has handed to yaml_emitter_emit.
Handed == IF call'.op = "emit" THEN <<call'.event>> ELSE call'.events

\* The head of the queue is a start event that waits for the events behind
\* it.
WaitsForMore(queue) ==
    /\ Len(queue) - 1 < Accumulate(queue[1])
    /\ ~Closed(queue)

Emitted ==
    /\ application.emitter = "made"
    /\ application.emitted = Len(application.events)
    /\ emitter.error = "NO"

\* C37: after a well-formed sequence of events from STREAM-START to
\* STREAM-END has been emitted and every call has succeeded, every event has
\* been processed and deleted, the queue is empty, the stacks of states and
\* of indents are empty as at first, and the output has been flushed to the
\* sink.
C37_StreamCompleted ==
    Emitted
    => /\ emitter.events.buffer = <<>>
       /\ emitter.state = "END"
       /\ emitter.states = <<>>
       /\ emitter.indents = <<>>
       /\ emitter.buffer = <<>>
       /\ emitter.raw_buffer = <<>>
       /\ \A k \in DOMAIN application.events : application.released[k] = 1

\* A stream of two documents, the second a sequence that holds a mapping,
\* has been emitted.
C37_Witness ==
    /\ Emitted
    /\ Len(application.events) >= 10
    /\ application.events[5].type = "DOCUMENT_START"
    /\ \E k \in DOMAIN application.events :
           application.events[k].type = "MAPPING_START"
    /\ emitter.output.buffer # <<>>

(***************************************************************************)
(* The dumper on the documents of the document API.                        *)
(***************************************************************************)
\* The references that the nodes reached from the root hold, with the one
\* of the document to its root.
RECURSIVE References(_, _, _)
References(doc, reached, n) ==
    IF n = 0 THEN 1
    ELSE References(doc, reached, n - 1)
         + (IF n \in reached THEN Len(Children(doc.nodes[n])) ELSE 0)

ReachedOfType(doc, type) ==
    Cardinality({n \in Reached(doc, {1}) : doc.nodes[n].type = type})

DumpedOfType(dumped, type) ==
    Len(SelectSeq(dumped, LAMBDA event : event.type = type))

\* The events of a dump that has come to its end: the content of each node
\* reached from the root once, and an alias for each further reference; a
\* dump that failed has written no more than that.
DumpedOnce(doc, dumped, result) ==
    LET reached == Reached(doc, {1})
        aliases == References(doc, reached, Len(doc.nodes))
                   - Cardinality(reached)
        within(count, most) == count <= most /\ (result = 1 => count = most)
    IN /\ result \in {0, 1}
       /\ within(DumpedOfType(dumped, "SCALAR"), ReachedOfType(doc, "SCALAR"))
       /\ within(DumpedOfType(dumped, "SEQUENCE_START"),
                 ReachedOfType(doc, "SEQUENCE"))
       /\ within(DumpedOfType(dumped, "MAPPING_START"),
                 ReachedOfType(doc, "MAPPING"))
       /\ within(DumpedOfType(dumped, "SEQUENCE_END"),
                 ReachedOfType(doc, "SEQUENCE"))
       /\ within(DumpedOfType(dumped, "MAPPING_END"),
                 ReachedOfType(doc, "MAPPING"))
       /\ within(DumpedOfType(dumped, "ALIAS"), aliases)

\* C38: the dump of every document that the document API can build comes to
\* an end, cyclic documents included: it writes the content of each node
\* reached from the root once and an alias for every further reference.
C38_DumpsEachNodeOnce ==
    call.op = "dump" /\ call.document.nodes # <<>>
    => DumpedOnce(call.document, call.events, call.result)

\* The same for the documents whose ids are all indices of the arena.
DumpsEachNodeOnceInArena ==
    call.op = "dump" /\ call.document.nodes # <<>>
                     /\ ~OutOfArena(call.document)
    => DumpedOnce(call.document, call.events, call.result)

\* A document built by the document API whose root holds itself, dumped.
CyclicBuiltAndDumped ==
    /\ call.op = "dump"
    /\ api = "document"
    /\ call.result = 1
    /\ call.document.nodes # <<>>
    /\ ~OutOfArena(call.document)
    /\ \E i \in DOMAIN Children(call.document.nodes[1]) :
           Children(call.document.nodes[1])[i] = 1

(***************************************************************************)
(* The markers that the emitter writes behind a block scalar.              *)
(***************************************************************************)
\* What the emitter has written of a stream in UTF-8: the bytes that the
\* sink holds and the characters that wait in the buffer.
Text(e) == e.output.buffer \o e.buffer

\* Whether the marker --- or ... stands at the position k of a text.
MarkerAt(text, k) ==
    /\ k + 2 <= Len(text)
    /\ SubSeq(text, k, k + 2) \in {<<"-", "-", "-">>, <<".", ".", ".">>}

\* The text holds a keep indicator behind which stands no header of a
\* further block scalar and no marker.
KeepPending(text) ==
    \E k \in DOMAIN text :
        /\ text[k] = "+"
        /\ \A i \in (k + 1)..Len(text) :
               text[i] \notin {"|", ">"} /\ ~MarkerAt(text, i)

\* The first position of a text behind a prefix that holds neither a space
\* nor a break, 0 if there is none.
RECURSIVE FirstBehind(_, _)
FirstBehind(text, k) ==
    IF k > Len(text) THEN 0
    ELSE IF text[k] \in {" ", "\n"} THEN FirstBehind(text, k + 1)
    ELSE k

\* A call of yaml_emitter_emit that leaves the emitter without an error.
Emits ==
    /\ application.emitter = "made"
    /\ application'.emitter = "made"
    /\ application'.emitted = application.emitted + 1
    /\ emitter'.error = "NO"

\* C39: the emitter is open-ended (open_ended = 2) exactly from the keep
\* indicator of a block scalar until the header of a further block scalar
\* or a marker is written; when a document ended open-ended, the next thing
\* written is a marker: --- or ... before the next document, ... at the end
\* of the stream.
C39_OpenEnded ==
    [][Emits
       => /\ (emitter'.open_ended = 2) = KeepPending(Text(emitter'))
          /\ (/\ emitter.open_ended = 2
              /\ emitter.state = "DOCUMENT_START"
              /\ emitter'.state # "DOCUMENT_START")
             => /\ Len(Text(emitter')) > Len(Text(emitter))
                /\ MarkerAt(Text(emitter'),
                            FirstBehind(Text(emitter'), Len(Text(emitter)) + 1))]_vars

\* A stream of two documents, the first with a block scalar that keeps its
\* trailing line breaks and an implicit end, emitted to the end.
C39_Witness ==
    /\ Emitted
    /\ emitter.state = "END"
    /\ emitter.open_ended = 0
    /\ \E k \in DOMAIN Text(emitter) :
           /\ Text(emitter)[k] = "+"
           /\ \E i \in (k + 1)..Len(Text(emitter)) :
                  /\ MarkerAt(Text(emitter), i)
                  /\ Text(emitter)[i] = "-"

(***************************************************************************)
(* The index of the marks.                                                 *)
(***************************************************************************)
\* The characters of a string in UTF-8: the octets that continue none.
Characters(string) ==
    Cardinality({k \in DOMAIN string : ORD[string[k]] \div 64 # 2})

\* The octets that the characters of a string in UTF-8 take in the raw
\* input of the encoding.
RawOctets(string, encoding) ==
    IF encoding = "UTF8" THEN Len(string)
    ELSE 2 * Characters(string)
         + 2 * Cardinality({k \in DOMAIN string : ORD[string[k]] \div 8 = 30})

\* The length of a part of the input in the unit: its characters, or its
\* octets in the raw input.
Measure(string, unit) ==
    IF unit = "characters" THEN Characters(string)
    ELSE RawOctets(string,
                   yaml_parser_determine_encoding(application.raw).encoding)

\* What precedes the first character of the buffer in the unit: nothing, or
\* the octets of the byte order mark.
Before(unit) ==
    IF unit = "characters" THEN 0
    ELSE yaml_parser_determine_encoding(application.raw).offset

Consumed(p) ==
    SubSeq(p.input, 1, IF p.pointer < Len(p.input) THEN p.pointer
                       ELSE Len(p.input))

\* The index of the marks counts the unit: the mark of the parser is at
\* what it has consumed, with the mark of an error; the tokens do not go
\* backwards; STREAM-END is at the end of the input; a plain scalar of one
\* word extends over its value.
IndexCounts(p, tokens, unit) ==
    /\ p.mark.index = Before(unit) + Measure(Consumed(p), unit)
    /\ p.error = "SCANNER" => p.problem_mark.index = p.mark.index
    /\ \A i \in DOMAIN tokens :
           /\ tokens[i].start_mark.index <= tokens[i].end_mark.index
           /\ \A k \in DOMAIN tokens :
                  i < k => tokens[i].start_mark.index
                               <= tokens[k].start_mark.index
           /\ tokens[i].type = "STREAM_END"
                  => tokens[i].start_mark.index
                         = Before(unit) + Measure(p.input, unit)
           /\ (/\ tokens[i].type = "SCALAR"
               /\ \A k \in DOMAIN tokens[i].value :
                      tokens[i].value[k] \notin {" ", "\n"})
                  => tokens[i].end_mark.index - tokens[i].start_mark.index
                         = Measure(tokens[i].value, unit)

\* C40: the index of every mark is the number of octets of the raw input
\* that precede the position, for UTF-8 with characters of several octets
\* and for UTF-16, and it never decreases.
C40_IndexCountsOctets ==
    [][/\ IndexCounts(parser', events', "octets")
       /\ parser'.mark.index >= parser.mark.index]_vars

\* C40, amended: the index of every mark is the number of characters that
\* precede the position, the byte order mark not counted and a line break of
\* CR LF counted as two, and it never decreases.
C40_IndexCountsCharacters ==
    [][/\ IndexCounts(parser', events', "characters")
       /\ parser'.mark.index >= parser.mark.index]_vars

\* An input in UTF-16 with a character of four octets, scanned to its end:
\* the index of STREAM-END is below the octets of the input.
C40_Witness ==
    /\ yaml_parser_determine_encoding(application.raw).encoding = "UTF16LE"
    /\ \E k \in DOMAIN parser.input : parser.input[k] = "xF0"
    /\ \E k \in DOMAIN parser.input : parser.input[k] = "\n"
    /\ parser.error = "NO"
    /\ \E i \in DOMAIN events :
           /\ events[i].type = "STREAM_END"
           /\ events[i].start_mark.index = 3
           /\ events[i].start_mark.index < Len(application.raw) - 2


\* The events that the step's call of yaml_emitter_emit has processed.
ProcessedNow ==
    IF call'.op = "emit" /\ call'.enqueued THEN call'.deleted ELSE <<>>

\* C3: once an operation on the emitter has failed and set its error, no
\* later operation on the emitter processes an event or writes output until
\* the emitter is deleted.
C3_NoProgressAfterFailure ==
    [][/\ application.emitter = "made"
       /\ emitter.error # "NO"
       /\ application'.emitter = "made"
       => /\ ProcessedNow = <<>>
          /\ emitter'.output = emitter.output]_vars


\* The tag of a node, with the non-specific tag "!" taken as no tag.
CanonicalTag(node) ==
    IF node.tag \in {NULL, <<"!">>} THEN YAML_DEFAULT_TAG(node.type)
    ELSE node.tag

\* The node a of the document d and the node b of the document e have the
\* same kind, tag and scalar value, and their items, keys and values are
\* alike in order; the pairs in assumed are on the way from the roots.
RECURSIVE Alike(_, _, _, _, _)
Alike(d, a, e, b, assumed) ==
    \/ <<a, b>> \in assumed
    \/ /\ d.nodes[a].type = e.nodes[b].type
       /\ CanonicalTag(d.nodes[a]) = CanonicalTag(e.nodes[b])
       /\ d.nodes[a].type = "SCALAR" => d.nodes[a].value = e.nodes[b].value
       /\ Len(Children(d.nodes[a])) = Len(Children(e.nodes[b]))
       /\ \A i \in DOMAIN Children(d.nodes[a]) :
              Alike(d, Children(d.nodes[a])[i], e, Children(e.nodes[b])[i],
                    assumed \cup {<<a, b>>})

StructurallyEqual(d, e) ==
    IF d.nodes = <<>> \/ e.nodes = <<>> THEN d.nodes = e.nodes
    ELSE Alike(d, 1, e, 1, {})

\* yaml_parser_load has returned for the first time since the application
\* has handed the dumped text to the parser.
Reloaded ==
    /\ "dumped" \in DOMAIN application
    /\ pc = "idle"
    /\ call.op = "load"
    /\ \A i \in DOMAIN events :
           events[i].type = "DOCUMENT_END" => i = Len(events)

\* C1: the document that is loaded from the text that an emitter with the
\* default settings has written for a dumped document is structurally equal
\* to the dumped document: same tags, same scalar values, same order of the
\* items and of the pairs, up to the styles and with "!" for no tag.
C1_RoundTrip ==
    Reloaded /\ ~emitter.canonical
    => /\ call.result = 1
       /\ StructurallyEqual(application.dumped, document)


\* The text of every dumped document but the one whose root is an empty
\* scalar loads as a structurally equal document.
RoundTripOfOtherRoots ==
    /\ Reloaded
    /\ ~emitter.canonical
    /\ ~(/\ application.dumped.nodes[1].type = "SCALAR"
         /\ application.dumped.nodes[1].value = <<>>)
    => /\ call.result = 1
       /\ StructurallyEqual(application.dumped, document)

====
